---- MODULE Spec2Model ----
(***************************************************************************)
(* FinFlow: the transaction mutation handlers (POST /add, PUT /update,     *)
(* DELETE /delete) with their dual write to the database and to the        *)
(* uploads directory, and the list query.                                  *)
(*                                                                         *)
(* The repository holds two revisions of routes/transactions.js that carry *)
(* the attachment engine: the one with the full-row update                 *)
(* (src/src/routes/transactions.js) and the one with the partial update    *)
(* (src/unnamed/part_004).  The variable version says which revision is    *)
(* deployed; it never changes within a behaviour.  POST /add is the same   *)
(* text in both revisions.                                                 *)
(*                                                                         *)
(* Each request is one atomic step: multer stores the request's files,     *)
(* then the controller runs to its response.  A request carries a fault    *)
(* point fp: the database or file-system call that throws during this      *)
(* request (NoFault: none does).                                           *)
(***************************************************************************)
EXTENDS Integers, Sequences, FiniteSets, Bags, TLC

\* ------------------------------------------------------------------------
\* Bounds of the model
\* ------------------------------------------------------------------------
\* MaxRequests: requests of one behaviour; MaxTrns: rows ever inserted into
\* transactions; MaxPaths: files ever uploaded.
MaxRequests == 3
MaxTrns == 2
MaxPaths == 2
\* MaxLists: list requests of one behaviour.
MaxLists == 1
\* MaxPageSize: the largest page size of a client that reads page by page.
MaxPageSize == 2

Users == {1, 2}
Contents == {1, 2}

\* ------------------------------------------------------------------------
\* Values
\* ------------------------------------------------------------------------
\* Column and request values are integers: SqlNull is SQL NULL, EmptyStr the
\* empty string "" of a multipart text field, NoTrnId a missing trnId
\* query parameter (it matches no row).
SqlNull == -1
EmptyStr == 0
NoTrnId == 0
AddValue == 1
UpdateValue == 2

FieldNames == {"categoryId", "amount", "note", "trnDate"}

\* req.body: a function from the supplied field names to their values.
\* Every supplied field carries v, except that note may be the empty string.
Body(F, v, emptyNote) ==
    [f \in F |-> IF f = "note" /\ emptyNote THEN EmptyStr ELSE v]

Required == {"categoryId", "amount", "trnDate"}

\* The bodies of the column scenarios: nothing, one column, the note alone
\* (a value or ""), the three required columns, all four.
FieldSets == {{}, {"amount"}, {"note"}, Required, FieldNames}

Bodies(v) == {Body(F, v, e) : F \in FieldSets, e \in BOOLEAN}

\* The bodies of the attachment scenarios: nothing, the three required
\* columns.
PlainBodies(v) == {Body({}, v, FALSE), Body(Required, v, FALSE)}

\* JavaScript !x for a body field: undefined and "" are falsy.
Falsy(body, f) == f \notin DOMAIN body \/ body[f] = EmptyStr

\* note || null
NoteOrNull(body) == IF Falsy(body, "note") THEN SqlNull ELSE body["note"]

\* note === "" ? null : note
NoteEmptyToNull(body) ==
    IF body["note"] = EmptyStr THEN SqlNull ELSE body["note"]

\* ------------------------------------------------------------------------
\* State
\* ------------------------------------------------------------------------
VARIABLES
    version,                  \* "full" | "partial": the deployed revision
    transactions,             \* committed rows of table transactions
    transaction_attachments,  \* committed rows of transaction_attachments
    disk,                     \* uploads directory: file path -> content
    nextTrnId,                \* AUTO_INCREMENT of transactions.trn_id
    nextAttId,                \* AUTO_INCREMENT of attachment_id
    nextPath,                 \* next file name multer generates
    last,                     \* the request that returned last
    requests,                 \* number of requests served
    deleted,                  \* trn ids whose DELETE returned success
    listed,                   \* the GET / request that returned last
    paging,                   \* a client reading a list page by page
    race                      \* two requests that run concurrently

vars == <<version, transactions, transaction_attachments, disk,
          nextTrnId, nextAttId, nextPath, last, requests, deleted, listed,
          paging, race>>

\* ------------------------------------------------------------------------
\* File system
\* ------------------------------------------------------------------------
\* fs.existsSync
existsSync(dsk, p) == p \in DOMAIN dsk

\* An unlink that leaves the file: C27 does not hold of handlers that
\* call it.
unlinkLeavesFile(dsk, p) == dsk

\* fs.unlinkSync of an existing file
unlinkSync(dsk, p) == [q \in (DOMAIN dsk) \ {p} |-> dsk[q]]

\* The digest of a content: injective on Contents, and not the content
\* itself.
Sha256(c) == 100 + 7 * c

\* getFileHash(filePath): digest of the bytes read from the file
getFileHash(dsk, p) == Sha256(dsk[p])

\* multer diskStorage: every file of the request is written under a fresh
\* unique name before the controller runs.  contents is the sequence of the
\* uploaded files' contents; the result is the directory afterwards.
MulterStore(dsk, np, contents) ==
    [p \in (DOMAIN dsk) \cup (np..(np + Len(contents) - 1)) |->
        IF p \in DOMAIN dsk THEN dsk[p] ELSE contents[p - np + 1]]

\* req.files: the paths multer gave the uploaded files, in upload order
ReqFiles(np, contents) == [i \in 1..Len(contents) |-> np + i - 1]

Range(s) == {s[i] : i \in DOMAIN s}

\* ------------------------------------------------------------------------
\* Fault points
\* ------------------------------------------------------------------------
FP(op, i) == [op |-> op, i |-> i]
NoFault == FP("none", 0)

\* ------------------------------------------------------------------------
\* Results of a handler
\* ------------------------------------------------------------------------
\* status: the HTTP status sent; scope: what became of the transactional
\* scope ("none": never opened, "open": neither committed nor rolled back);
\* T, A, d: committed tables and directory when the response is sent;
\* nT, nA: the AUTO_INCREMENT counters; id: the trn id the request worked on;
\* db: whether the request reached the store.
Result(status, scope, T, A, d, nT, nA, id, db) ==
    [status |-> status, scope |-> scope, T |-> T, A |-> A, d |-> d,
     nT |-> nT, nA |-> nA, id |-> id, db |-> db]

\* ------------------------------------------------------------------------
\* Rows and WHERE clauses
\* ------------------------------------------------------------------------
TrnRow(id, userId, cat, amount, note, date) ==
    [trn_id |-> id, user_id |-> userId, category_id |-> cat,
     amount |-> amount, note |-> note, trn_date |-> date]

AttRow(id, trnId, path, hash) ==
    [attachment_id |-> id, trn_id |-> trnId, file_path |-> path,
     file_hash |-> hash]

\* A duplicate check that never finds a row: C11 does not hold of a loop
\* that runs it.
HashNever(A, trnId, fileHash) == FALSE

\* A duplicate check without the transaction: C12 does not hold of a loop
\* that runs it.
HashExistsAnywhere(A, trnId, fileHash) ==
    \E a \in A : a.file_hash = fileHash

\* WHERE trn_id = ? AND file_hash = ?  (SELECT 1 ..., the duplicate check)
HashExists(A, trnId, fileHash) ==
    \E a \in A : a.trn_id = trnId /\ a.file_hash = fileHash

\* ------------------------------------------------------------------------
\* The attachment loop of POST /add and PUT /update
\* ------------------------------------------------------------------------
\* for (const file of req.files): hash, duplicate check against the rows the
\* connection sees (wA), unlink a duplicate, else collect the row values.
\* The rows are inserted after the loop, so wA does not change inside it.
\* Result: err (a call threw), d (the directory), values (rows to insert).
\* Fault "check" of file i: getFileHash or the duplicate SELECT throws (the
\* two leave the same state); fault "unlink": unlinkSync of the duplicate.
RECURSIVE attachmentLoop(_, _, _, _, _, _, _)
attachmentLoop(i, files, trnId, wA, dsk, values, fp) ==
    IF i > Len(files) THEN [err |-> FALSE, d |-> dsk, values |-> values]
    ELSE IF fp = FP("check", i) \/ ~existsSync(dsk, files[i])
        THEN [err |-> TRUE, d |-> dsk, values |-> values]
    ELSE IF HashExists(wA, trnId, getFileHash(dsk, files[i]))
        THEN IF fp = FP("unlink", i)
             THEN [err |-> TRUE, d |-> dsk, values |-> values]
             ELSE attachmentLoop(i + 1, files, trnId, wA,
                                 unlinkSync(dsk, files[i]), values, fp)
    ELSE attachmentLoop(i + 1, files, trnId, wA, dsk,
             Append(values, <<trnId, files[i], getFileHash(dsk, files[i])>>),
             fp)

\* INSERT INTO transaction_attachments (...) VALUES ?  (one row per value,
\* attachment ids from the AUTO_INCREMENT counter nA)
InsertAttachments(wA, values, nA) ==
    wA \cup {AttRow(nA + k - 1, values[k][1], values[k][2], values[k][3]) :
                k \in 1..Len(values)}

\* ------------------------------------------------------------------------
\* POST /add
\* ------------------------------------------------------------------------
\* catch: rollback, 500.  The files of the request stay where they are.
\* id is the trn id the rolled-back INSERT drew.  The AUTO_INCREMENT
\* counters are advanced at commit: the values a rolled-back statement drew
\* are not kept as gaps.
\* Fault "begin": beginTransaction or the INSERT of the row throws; fault
\* "commit": the INSERT of the attachment rows or the commit throws.
AddCatch(d, id) ==
    Result(500, "rolledback", transactions, transaction_attachments, d,
           nextTrnId, nextAttId, id, TRUE)

AddHandler(userId, body, files, dsk, fp) ==
    IF Falsy(body, "categoryId") \/ Falsy(body, "amount")
          \/ Falsy(body, "trnDate")
    THEN Result(422, "none", transactions, transaction_attachments, dsk,
                nextTrnId, nextAttId, NoTrnId, FALSE)
    ELSE IF fp = FP("begin", 0)
    THEN AddCatch(dsk, nextTrnId)
    ELSE
      LET trnId == nextTrnId
          wT == transactions \cup
                  {TrnRow(trnId, userId, body["categoryId"], body["amount"],
                          NoteOrNull(body), body["trnDate"])}
          loop == attachmentLoop(1, files, trnId, transaction_attachments,
                                 dsk, <<>>, fp)
          wA == InsertAttachments(transaction_attachments, loop.values,
                                  nextAttId)
          nA == nextAttId + Len(loop.values)
      IN IF loop.err
         THEN AddCatch(loop.d, trnId)
         ELSE IF fp = FP("commit", 0)
         THEN AddCatch(loop.d, trnId)
         ELSE Result(201, "committed", wT, wA, loop.d, trnId + 1, nA,
                     trnId, TRUE)

\* ------------------------------------------------------------------------
\* PUT /update and DELETE /delete: shared pieces
\* ------------------------------------------------------------------------
\* A WHERE clause without the owner: C6 does not hold of handlers that
\* select their row with it.
OwnedByAnyone(t, trnId, userId) == t.trn_id = trnId

\* WHERE trn_id = ? AND user_id = ?
OwnedBy(t, trnId, userId) == t.trn_id = trnId /\ t.user_id = userId

\* A WHERE clause without the IN list: C9 does not hold of an update that
\* selects the attachments to delete with it.
SelectEveryAttachment(A, trnId, ids) == {a \in A : a.trn_id = trnId}

\* A WHERE clause without the transaction: C30 does not hold of an update
\* that selects the attachments to delete with it.
SelectByIdOnly(A, trnId, ids) == {a \in A : a.attachment_id \in ids}

\* WHERE trn_id = ? AND attachment_id IN (?)
SelectedAttachments(A, trnId, ids) ==
    {a \in A : a.trn_id = trnId /\ a.attachment_id \in ids}

\* WHERE trn_id = ?   (the attachments of a transaction; also the rows
\* ON DELETE CASCADE removes with it)
AttachmentsOf(A, trnId) == {a \in A : a.trn_id = trnId}

\* A loop that unlinks nothing: C8 does not hold of a delete that runs it.
unlinkNone(rows, dsk, fp) == [err |-> FALSE, d |-> dsk]

\* for (const f of rows) if (fs.existsSync(f.file_path)) fs.unlinkSync(...)
\* in attachment_id order.  Fault "unlinkOld" i: unlinkSync throws for the
\* file of attachment i.
RECURSIVE unlinkFiles(_, _, _)
unlinkFiles(rows, dsk, fp) ==
    IF rows = {} THEN [err |-> FALSE, d |-> dsk]
    ELSE LET r == CHOOSE x \in rows :
                    \A y \in rows : x.attachment_id <= y.attachment_id
         IN IF ~existsSync(dsk, r.file_path)
            THEN unlinkFiles(rows \ {r}, dsk, fp)
            ELSE IF fp = FP("unlinkOld", r.attachment_id)
            THEN [err |-> TRUE, d |-> dsk]
            ELSE unlinkFiles(rows \ {r}, unlinkSync(dsk, r.file_path), fp)

\* req.files.forEach(f => existsSync(f.path) && unlinkSync(f.path))
CleanupUploads(dsk, files) ==
    [q \in (DOMAIN dsk) \ Range(files) |-> dsk[q]]

\* catch of PUT /update: rollback, cleanup of the uploaded files, 500.
\* T and A are the committed tables at that moment.
UpdateCatch(T, A, d, files, trnId) ==
    Result(500, "rolledback", T, A, CleanupUploads(d, files), nextTrnId,
           nextAttId, trnId, TRUE)

\* ------------------------------------------------------------------------
\* PUT /update, partial revision (src/unnamed/part_004)
\* ------------------------------------------------------------------------
\* SET of the supplied columns only
SetSupplied(t, body) ==
    [t EXCEPT
       !.category_id = IF "categoryId" \in DOMAIN body
                       THEN body["categoryId"] ELSE @,
       !.amount = IF "amount" \in DOMAIN body THEN body["amount"] ELSE @,
       !.note = IF "note" \in DOMAIN body THEN NoteEmptyToNull(body) ELSE @,
       !.trn_date = IF "trnDate" \in DOMAIN body
                    THEN body["trnDate"] ELSE @]

\* UPDATE transactions SET ... WHERE trn_id = ? AND user_id = ?
UpdateSupplied(T, trnId, userId, body) ==
    {IF OwnedBy(t, trnId, userId) THEN SetSupplied(t, body) ELSE t :
        t \in T}

\* Everything after the ownership check: attachment removal, attachment
\* intake, commit.  wT is the transactions table as the connection sees it.
UpdateAttachments(wT, trnId, delIds, files, dsk, fp) ==
    LET A == transaction_attachments
        sel == SelectedAttachments(A, trnId, delIds)
        rm == IF delIds = {} THEN [err |-> FALSE, d |-> dsk]
              ELSE unlinkFiles(sel, dsk, fp)
        wA1 == IF delIds = {} THEN A ELSE A \ sel
        loop == attachmentLoop(1, files, trnId, wA1, rm.d, <<>>, fp)
        wA2 == InsertAttachments(wA1, loop.values, nextAttId)
        nA == nextAttId + Len(loop.values)
    IN IF delIds # {} /\ fp = FP("selectPaths", 0)
       THEN UpdateCatch(transactions, A, dsk, files, trnId)
       ELSE IF rm.err \/ (delIds # {} /\ fp = FP("deleteAtt", 0))
       THEN UpdateCatch(transactions, A, rm.d, files, trnId)
       ELSE IF loop.err \/ fp = FP("commit", 0)
       THEN UpdateCatch(transactions, A, loop.d, files, trnId)
       ELSE Result(200, "committed", wT, wA2, loop.d, nextTrnId, nA,
                   trnId, TRUE)

\* Fault "begin": beginTransaction, the UPDATE or (with no column supplied)
\* the SELECT 1 that verifies ownership throws; fault "commit": the INSERT of
\* the attachment rows or the commit throws.
UpdatePartial(userId, trnId, body, delIds, files, dsk, fp) ==
    IF trnId = NoTrnId
       \/ (DOMAIN body = {} /\ delIds = {} /\ Len(files) = 0)
    THEN Result(422, "none", transactions, transaction_attachments, dsk,
                nextTrnId, nextAttId, trnId, FALSE)
    ELSE IF fp = FP("begin", 0)
    THEN UpdateCatch(transactions, transaction_attachments, dsk, files,
                     trnId)
    ELSE IF ~\E t \in transactions : OwnedBy(t, trnId, userId)
    THEN Result(404, "rolledback", transactions, transaction_attachments,
                dsk, nextTrnId, nextAttId, trnId, TRUE)
    ELSE UpdateAttachments(
             IF DOMAIN body # {}
             THEN UpdateSupplied(transactions, trnId, userId, body)
             ELSE transactions,
             trnId, delIds, files, dsk, fp)

\* ------------------------------------------------------------------------
\* PUT /update, full revision (src/src/routes/transactions.js)
\* ------------------------------------------------------------------------
\* SET category_id = ?, amount = ?, note = ?, trn_date = ?
SetAll(t, body) ==
    [t EXCEPT !.category_id = body["categoryId"],
              !.amount = body["amount"],
              !.note = NoteOrNull(body),
              !.trn_date = body["trnDate"]]

UpdateAll(T, trnId, userId, body) ==
    {IF OwnedBy(t, trnId, userId) THEN SetAll(t, body) ELSE t : t \in T}

\* The UPDATE, the SELECT of the file paths and the DELETE of the attachment
\* rows go through the pool (db.query): each is committed as it returns and
\* no rollback of the connection reverts it.  The duplicate check and the
\* INSERT of the new rows go through the connection.  beginTransaction is
\* not awaited and no rollback precedes the 404 response.  Fault "begin":
\* the UPDATE throws.
UpdateFull(userId, trnId, body, delIds, files, dsk, fp) ==
    IF Falsy(body, "categoryId") \/ Falsy(body, "amount")
          \/ Falsy(body, "trnDate")
    THEN Result(422, "none", transactions, transaction_attachments, dsk,
                nextTrnId, nextAttId, trnId, FALSE)
    ELSE IF fp = FP("begin", 0)
    THEN UpdateCatch(transactions, transaction_attachments, dsk, files,
                     trnId)
    ELSE IF ~\E t \in transactions : OwnedBy(t, trnId, userId)
    THEN Result(404, "open", transactions, transaction_attachments, dsk,
                nextTrnId, nextAttId, trnId, TRUE)
    ELSE
      LET T1 == UpdateAll(transactions, trnId, userId, body)
          A == transaction_attachments
          sel == SelectedAttachments(A, trnId, delIds)
          rm == IF delIds = {} THEN [err |-> FALSE, d |-> dsk]
                ELSE unlinkFiles(sel, dsk, fp)
          A1 == IF delIds = {} THEN A ELSE A \ sel
          loop == attachmentLoop(1, files, trnId, A1, rm.d, <<>>, fp)
          A2 == InsertAttachments(A1, loop.values, nextAttId)
          nA == nextAttId + Len(loop.values)
      IN IF delIds # {} /\ fp = FP("selectPaths", 0)
         THEN UpdateCatch(T1, A, dsk, files, trnId)
         ELSE IF rm.err \/ (delIds # {} /\ fp = FP("deleteAtt", 0))
         THEN UpdateCatch(T1, A, rm.d, files, trnId)
         ELSE IF loop.err \/ fp = FP("commit", 0)
         THEN UpdateCatch(T1, A1, loop.d, files, trnId)
         ELSE Result(200, "committed", T1, A2, loop.d, nextTrnId, nA,
                     trnId, TRUE)

\* ------------------------------------------------------------------------
\* DELETE /delete
\* ------------------------------------------------------------------------
\* DELETE FROM transactions WHERE user_id = ? AND trn_id = ?
DeleteOwned(T, trnId, userId) == {t \in T : ~OwnedBy(t, trnId, userId)}

\* ON DELETE CASCADE of transaction_attachments.trn_id
CascadeDelete(A, trnId) == A \ AttachmentsOf(A, trnId)

\* catch of DELETE /delete: rollback, 500
DeleteCatch(T, A, d, trnId) ==
    Result(500, "rolledback", T, A, d, nextTrnId, nextAttId, trnId, TRUE)

\* Partial revision: every statement goes through the connection.
\* Fault "begin": beginTransaction, the SELECT of the file paths or the
\* DELETE throws.
DeletePartial(userId, trnId, dsk, fp) ==
    LET T == transactions
        A == transaction_attachments
        rm == unlinkFiles(AttachmentsOf(A, trnId), dsk, fp)
    IN IF fp = FP("begin", 0)
       THEN DeleteCatch(T, A, dsk, trnId)
       ELSE IF ~\E t \in T : OwnedBy(t, trnId, userId)
       THEN Result(404, "rolledback", T, A, dsk, nextTrnId, nextAttId,
                   trnId, TRUE)
       ELSE IF rm.err \/ fp = FP("commit", 0)
       THEN DeleteCatch(T, A, rm.d, trnId)
       ELSE Result(200, "committed", DeleteOwned(T, trnId, userId),
                   CascadeDelete(A, trnId), rm.d, nextTrnId, nextAttId,
                   trnId, TRUE)

\* Full revision: the DELETE goes through the pool (db.query) and is
\* committed as it returns; the rollback of the connection does not revert
\* it.
DeleteFull(userId, trnId, dsk, fp) ==
    LET T == transactions
        A == transaction_attachments
        T1 == DeleteOwned(T, trnId, userId)
        A1 == CascadeDelete(A, trnId)
        rm == unlinkFiles(AttachmentsOf(A, trnId), dsk, fp)
    IN IF fp = FP("begin", 0)
       THEN DeleteCatch(T, A, dsk, trnId)
       ELSE IF ~\E t \in T : OwnedBy(t, trnId, userId)
       THEN Result(404, "rolledback", T, A, dsk, nextTrnId, nextAttId,
                   trnId, TRUE)
       ELSE IF rm.err \/ fp = FP("commit", 0)
       THEN DeleteCatch(T1, A1, rm.d, trnId)
       ELSE Result(200, "committed", T1, A1, rm.d, nextTrnId, nextAttId,
                   trnId, TRUE)

\* ------------------------------------------------------------------------
\* GET /  (the list query)
\* ------------------------------------------------------------------------
\* Table categories: user_id is the owner of a private category and NULL
\* for a predefined one.  The category of the Add bodies is private to user
\* 1, the category of the Update bodies is predefined.
categories ==
    {[category_id |-> AddValue, user_id |-> 1, type |-> "Income",
      name |-> 3],
     [category_id |-> UpdateValue, user_id |-> SqlNull, type |-> "Expense",
      name |-> 4]}

\* categories.category_id of the rows the join finds
CategoryIds == {AddValue, UpdateValue}

\* FROM transactions t JOIN categories c ON c.category_id = t.category_id
\* WHERE t.user_id = ? GROUP BY t.trn_id: the trn ids of the result
fetchTransactions(T, userId) ==
    {t.trn_id : t \in {x \in T : x.user_id = userId
                                  /\ x.category_id \in CategoryIds}}

\* ------------------------------------------------------------------------
\* GET /: strings
\* ------------------------------------------------------------------------
\* A string whose characters matter is a sequence of characters.  The notes
\* and the category names of the tables are integer codes; Text gives the
\* characters of a code.
Text(code) ==
    CASE code = 1 -> <<"a">>
      [] code = 2 -> <<"a", "b">>
      [] code = 3 -> <<"b">>
      [] code = 4 -> <<"c">>
      [] OTHER -> << >>

\* search.length > 100
MaxSearchLength == 100

\* String.prototype.trim
RECURSIVE trim(_)
trim(text) ==
    IF text = << >> THEN text
    ELSE IF Head(text) = " " THEN trim(Tail(text))
    ELSE IF text[Len(text)] = " " THEN trim(SubSeq(text, 1, Len(text) - 1))
    ELSE text

\* String.prototype.toLowerCase, on the type and order values of the model
toLowerCase(str) ==
    CASE str = "Income" -> "income"
      [] str = "Expense" -> "expense"
      [] str = "ASC" -> "asc"
      [] str = "DESC" -> "desc"
      [] str = "Desc" -> "desc"
      [] OTHER -> str

\* String.prototype.toUpperCase, on the order values of the model
toUpperCase(str) ==
    CASE str = "asc" -> "ASC"
      [] str = "desc" -> "DESC"
      [] str = "Desc" -> "DESC"
      [] OTHER -> str

\* text LIKE pattern: % matches any run of characters, _ any one character
RECURSIVE Like(_, _)
Like(text, pattern) ==
    IF pattern = << >> THEN text = << >>
    ELSE IF Head(pattern) = "%"
    THEN \/ Like(text, Tail(pattern))
         \/ text # << >> /\ Like(Tail(text), pattern)
    ELSE IF text = << >> THEN FALSE
    ELSE /\ Head(pattern) = "_" \/ Head(pattern) = Head(text)
         /\ Like(Tail(text), Tail(pattern))

\* column LIKE pattern of a nullable column holding a code: NULL matches
\* nothing.
ColumnLike(code, pattern) ==
    code # SqlNull /\ Like(Text(code), pattern)

\* a = b under the default (case-insensitive) collation
SqlEq(a, b) == toLowerCase(a) = toLowerCase(b)

\* ------------------------------------------------------------------------
\* GET /: the query string
\* ------------------------------------------------------------------------
\* A value of req.query is undefined or a string (or an array of strings).
\* kind says which; the other field is what the conversions of the handler
\* read from it.
\*   date:   "iso" is YYYY-MM-DD of a calendar day (day), "invalid" passes
\*           the format test but is no date (month 13), "garbage" fails it
\*   number: "numeral" is a decimal numeral (n), "empty" is "", "garbage" is
\*           any text that is no number
\*   ids:    items holds the numbers of the all-digit items, -1 for an item
\*           that is not all digits
RawDate(kind, day) == [kind |-> kind, day |-> day]
RawNumber(kind, n) == [kind |-> kind, n |-> n]
RawSearch(kind, text) == [kind |-> kind, text |-> text]
RawIds(kind, items) == [kind |-> kind, items |-> items]
Undefined == "undefined"

NoDate == RawDate(Undefined, 0)
NoNumber == RawNumber(Undefined, 0)
NoSearch == RawSearch(Undefined, << >>)
NoIds == RawIds(Undefined, << >>)

\* JavaScript truthiness of a query value
DateTruthy(d) == d.kind \notin {Undefined, "empty"}

\* isValidISODate(dateStr)
isValidISODate(d) ==
    IF ~DateTruthy(d) THEN FALSE
    ELSE IF d.kind \notin {"iso", "invalid"} THEN FALSE
    ELSE d.kind # "invalid"

\* Number(raw): finite says whether Number.isFinite holds of the result
Number(raw) ==
    CASE raw.kind = "numeral" -> [finite |-> TRUE, n |-> raw.n]
      [] raw.kind = "empty" -> [finite |-> TRUE, n |-> 0]
      [] OTHER -> [finite |-> FALSE, n |-> 0]

\* parseInt(raw) || dflt
parseIntOr(raw, dflt) ==
    IF raw.kind = "numeral" /\ raw.n # 0 THEN raw.n ELSE dflt

\* Math.max(0, x)
MathMax0(x) == IF x < 0 THEN 0 ELSE x

\* categoryIds: undefined -> [], one value -> [value], then
\* .filter(id => /^\d+$/.test(id)).map(Number)
NormalizeIds(raw) ==
    SelectSeq(raw.items, LAMBDA id : id >= 0)

\* const allowedSortFields = {amount, trn_date, categoryName}
allowedSortFields ==
    [amount |-> "t.amount", trn_date |-> "t.trn_date",
     categoryName |-> "c.name"]

\* Properties every object literal inherits from Object.prototype: they are
\* functions, which are truthy and print as their source text.
ObjectPrototype ==
    [constructor |-> "function Object() { [native code] }",
     toString |-> "function toString() { [native code] }"]

\* allowedSortFields[sortBy]: an own property, an inherited one, or undefined
SortLookup(sortBy) ==
    IF sortBy \in DOMAIN allowedSortFields THEN allowedSortFields[sortBy]
    ELSE IF sortBy \in DOMAIN ObjectPrototype THEN ObjectPrototype[sortBy]
    ELSE Undefined

allowedOrders == {"asc", "desc"}

\* ------------------------------------------------------------------------
\* buildTransactionFilters
\* ------------------------------------------------------------------------
\* A bound value: for receives the filter it was pushed for; n, s, text hold
\* the value by its type (number or day, string, characters).
Param(for, n, s, text) == [for |-> for, n |-> n, s |-> s, text |-> text]

\* One entry of conditions with the values pushed along with it
Condition(sql, values) == [sql |-> sql, values |-> values]

\* One placeholder whatever the number of ids: C14 does not hold of a
\* builder that writes the IN list with it.
OnePlaceholder(n) == <<"?">>

\* categoryIds.map(() => "?").join(",")
RECURSIVE Placeholders(_)
Placeholders(n) ==
    IF n = 1 THEN <<"?">> ELSE <<"?", ",">> \o Placeholders(n - 1)

\* " AND " + conditions.join(" AND "), as a sequence of words
RECURSIVE JoinAnd(_)
JoinAnd(conds) ==
    IF conds = << >> THEN << >>
    ELSE <<"AND">> \o Head(conds).sql \o JoinAnd(Tail(conds))

RECURSIVE AllValues(_)
AllValues(conds) ==
    IF conds = << >> THEN << >>
    ELSE Head(conds).values \o AllValues(Tail(conds))

\* An `if (minAmount)` instead of the comparison with undefined: C15 does
\* not hold of a builder that tests the amounts with it.
AmountTruthy(a) == a.def /\ a.n # 0

\* minAmount !== undefined
AmountPresent(a) == a.def

\* The conditions array after the seven ifs.  minAmount and maxAmount are
\* [def, n] (def: !== undefined); search is [def, text].
Conditions(f) ==
    (IF DateTruthy(f.startDate)
     THEN <<Condition(<<"t.trn_date", ">=", "?">>,
                      <<Param("startDate", f.startDate.day, "", << >>)>>)>>
     ELSE << >>)
    \o (IF DateTruthy(f.endDate)
        THEN <<Condition(<<"t.trn_date", "<=", "?">>,
                         <<Param("endDate", f.endDate.day, "", << >>)>>)>>
        ELSE << >>)
    \o (IF Len(f.categoryIds) > 0
        THEN <<Condition(
                 <<"t.category_id", "IN", "(">>
                    \o Placeholders(Len(f.categoryIds)) \o <<")">>,
                 [i \in 1..Len(f.categoryIds) |->
                    Param("categoryIds", f.categoryIds[i], "", << >>)])>>
        ELSE << >>)
    \o (IF f.type \notin {Undefined, ""}
        THEN <<Condition(<<"c.type", "=", "?">>,
                         <<Param("type", 0, f.type, << >>)>>)>>
        ELSE << >>)
    \o (IF AmountPresent(f.minAmount)
        THEN <<Condition(<<"t.amount", ">=", "?">>,
                         <<Param("minAmount", f.minAmount.n, "", << >>)>>)>>
        ELSE << >>)
    \o (IF AmountPresent(f.maxAmount)
        THEN <<Condition(<<"t.amount", "<=", "?">>,
                         <<Param("maxAmount", f.maxAmount.n, "", << >>)>>)>>
        ELSE << >>)
    \o (IF f.search.def /\ f.search.text # << >>
        THEN LET searchPattern == <<"%">> \o f.search.text \o <<"%">>
             IN <<Condition(
                     <<"(", "t.note", "LIKE", "?", "OR", "c.name", "LIKE",
                       "?", ")">>,
                     <<Param("search", 0, "", searchPattern),
                       Param("search", 0, "", searchPattern)>>)>>
        ELSE << >>)

buildTransactionFilters(f) ==
    [whereClause |-> JoinAnd(Conditions(f)),
     params |-> AllValues(Conditions(f))]

\* ------------------------------------------------------------------------
\* The store runs a query: WHERE text and bound values
\* ------------------------------------------------------------------------
\* Position of the first ")" of a sequence of words
FirstClose(words) ==
    CHOOSE j \in 1..Len(words) :
        words[j] = ")" /\ \A k \in 1..(j - 1) : words[k] # ")"

Compare(a, op, b) == IF op = ">=" THEN a >= b ELSE a <= b

\* The predicate `AND cond AND cond ...` of row t joined with category c,
\* each ? taking the next bound value.
RECURSIVE EvalWhere(_, _, _, _)
EvalWhere(words, values, t, c) ==
    IF words = << >> THEN TRUE
    ELSE LET w == Tail(words)
             Rest(k) == SubSeq(w, k + 1, Len(w))
             After(k) == SubSeq(values, k + 1, Len(values))
         IN CASE w[1] = "t.trn_date" ->
                   /\ Compare(t.trn_date, w[2], values[1].n)
                   /\ EvalWhere(Rest(3), After(1), t, c)
              [] w[1] = "t.amount" ->
                   /\ Compare(t.amount, w[2], values[1].n)
                   /\ EvalWhere(Rest(3), After(1), t, c)
              [] w[1] = "c.type" ->
                   /\ SqlEq(c.type, values[1].s)
                   /\ EvalWhere(Rest(3), After(1), t, c)
              [] w[1] = "t.category_id" ->
                   LET close == FirstClose(w)
                       k == (close - 3 + 1) \div 2
                   IN /\ \E i \in 1..k : t.category_id = values[i].n
                      /\ EvalWhere(Rest(close), After(k), t, c)
              [] w[1] = "(" ->
                   /\ \/ ColumnLike(t.note, values[1].text)
                      \/ ColumnLike(c.name, values[2].text)
                   /\ EvalWhere(Rest(9), After(2), t, c)

\* The query without its owner clause: C17 does not hold of a list that
\* runs it.
MatchingAnyUser(T, whereClause, values) ==
    {t \in T :
        \E c \in categories :
           /\ c.category_id = t.category_id
           /\ EvalWhere(whereClause, Tail(values), t, c)}

\* FROM transactions t JOIN categories c ON c.category_id = t.category_id
\* WHERE t.user_id = ? ${whereClause}, run with [userId, ...params]
Matching(T, whereClause, values) ==
    {t \in T :
        /\ t.user_id = values[1].n
        /\ \E c \in categories :
              /\ c.category_id = t.category_id
              /\ EvalWhere(whereClause, Tail(values), t, c)}

\* The value ORDER BY reads of a row
SortKey(t, column) ==
    CASE column = "t.amount" -> t.amount
      [] column = "t.trn_date" -> t.trn_date
      [] column = "c.name" ->
           (CHOOSE c \in categories : c.category_id = t.category_id).name

\* The orders ORDER BY column dir may return the rows in: rows with equal
\* keys come in any order.
Orderings(rows, column, dir) ==
    {s \in [1..Cardinality(rows) -> rows] :
        /\ \A i, j \in DOMAIN s : i # j => s[i] # s[j]
        /\ \A i, j \in DOMAIN s :
              i < j => IF dir = "ASC"
                       THEN SortKey(s[i], column) <= SortKey(s[j], column)
                       ELSE SortKey(s[i], column) >= SortKey(s[j], column)}

\* LIMIT ? OFFSET ?
LimitOffset(s, limit, offset) ==
    SubSeq(s, offset + 1,
           IF offset + limit < Len(s) THEN offset + limit ELSE Len(s))

\* ------------------------------------------------------------------------
\* The attachment aggregation of the page query
\* ------------------------------------------------------------------------
\* The ta columns of a row of transactions that LEFT JOIN pairs with no
\* attachment
NullAttachment == AttRow(SqlNull, SqlNull, SqlNull, SqlNull)

\* FROM transactions t LEFT JOIN transaction_attachments ta
\*   ON ta.trn_id = t.trn_id: the joined rows of the rows in rows
LeftJoin(rows, A) ==
    UNION {IF AttachmentsOf(A, t.trn_id) = {}
           THEN {[t |-> t, ta |-> NullAttachment]}
           ELSE {[t |-> t, ta |-> a] : a \in AttachmentsOf(A, t.trn_id)} :
             t \in rows}

\* JSON null and JSON_OBJECT('id', ta.attachment_id, 'filePath',
\* ta.file_path, ...)
JsonNull == [id |-> SqlNull, filePath |-> SqlNull]

JsonObject(ta) == [id |-> ta.attachment_id, filePath |-> ta.file_path]

\* CASE WHEN ta.attachment_id IS NOT NULL THEN JSON_OBJECT(...) END
CaseEntry(ta) ==
    IF ta.attachment_id # SqlNull THEN JsonObject(ta) ELSE JsonNull

\* COALESCE(JSON_ARRAYAGG(...), JSON_ARRAY()) over the joined rows of one
\* group: one element per joined row.  The order of the elements is not
\* specified, the array is kept as the bag of its elements.
JsonArrayAgg(group) ==
    [e \in {CaseEntry(j.ta) : j \in group} |->
        Cardinality({j \in group : CaseEntry(j.ta) = e})]

\* A post-processing that keeps every element: C23 does not hold of a
\* list that runs it.
KeepEveryEntry(array) == array

\* trn.attachments.filter((a) => a && a.filePath)
FilterEntries(array) ==
    [e \in {x \in BagToSet(array) :
               x # JsonNull /\ x.filePath \notin {SqlNull, EmptyStr}} |->
        array[e]]

\* GROUP BY t.trn_id: the groups of a set of joined rows, by trn id
GroupBy(joined) ==
    [id \in {j.t.trn_id : j \in joined} |->
        {j \in joined : j.t.trn_id = id}]

\* The count of the joined rows of the page query: C21 does not hold of a
\* list that reports it.
CountJoinedRows(T, A, whereClause, values) ==
    Cardinality(LeftJoin(Matching(T, whereClause, values), A))

\* SELECT COUNT(DISTINCT t.trn_id) FROM transactions t JOIN categories c
\* WHERE t.user_id = ? ${whereClause}, over the database (T, A)
CountQuery(T, A, whereClause, values) ==
    Cardinality({t.trn_id : t \in Matching(T, whereClause, values)})

\* ------------------------------------------------------------------------
\* fetchTransactions with filters, sorting and pagination
\* ------------------------------------------------------------------------
\* Result: err (a query is no valid SQL and throws), pages (the pages the
\* page query may return, as sequences of trn ids), attachments (the
\* attachments array of each row after post-processing), total, and the
\* text and values of the page query.
fetchFiltered(T, A, userId, o) ==
    LET b == buildTransactionFilters(o)
        finalSortBy == IF o.sortBy = Undefined THEN "t.trn_date"
                       ELSE o.sortBy
        finalOrder == IF o.order = Undefined THEN "DESC" ELSE o.order
        user == Param("userId", userId, "", << >>)
        finalParams == <<user>> \o b.params
                          \o <<Param("limit", o.limit, "", << >>),
                               Param("offset", o.offset, "", << >>)>>
        countParams == <<user>> \o b.params
        valid == /\ finalSortBy \in {"t.amount", "t.trn_date", "c.name"}
                 /\ finalOrder \in {"ASC", "DESC"}
        groups == GroupBy(LeftJoin(
                      Matching(T, b.whereClause,
                               SubSeq(finalParams, 1, Len(finalParams) - 2)),
                      A))
        rows == {t \in T : t.trn_id \in DOMAIN groups}
        limit == finalParams[Len(finalParams) - 1].n
        offset == finalParams[Len(finalParams)].n
    IN [err |-> ~valid,
        whereClause |-> b.whereClause,
        params |-> finalParams,
        orderBy |-> finalSortBy,
        order |-> finalOrder,
        pages |-> IF valid
                  THEN {[i \in DOMAIN LimitOffset(s, limit, offset) |->
                            LimitOffset(s, limit, offset)[i].trn_id] :
                          s \in Orderings(rows, finalSortBy, finalOrder)}
                  ELSE {<< >>},
        attachments |-> IF valid
                        THEN [id \in DOMAIN groups |->
                                FilterEntries(JsonArrayAgg(groups[id]))]
                        ELSE << >>,
        total |-> IF valid
                  THEN CountQuery(T, A, b.whereClause, countParams)
                  ELSE 0]

\* ------------------------------------------------------------------------
\* GET /  controller
\* ------------------------------------------------------------------------
\* The query string of a request
Query(startDate, endDate, categoryIds, type, minAmount, maxAmount, search, sortBy, order, take, skip) ==
    [startDate |-> startDate, endDate |-> endDate,
     categoryIds |-> categoryIds, type |-> type, minAmount |-> minAmount,
     maxAmount |-> maxAmount, search |-> search, sortBy |-> sortBy,
     order |-> order, take |-> take, skip |-> skip]

\* What the controller hands to fetchTransactions
Options(q) ==
    [limit |-> MathMax0(parseIntOr(q.take, 10)),
     offset |-> MathMax0(parseIntOr(q.skip, 0)),
     startDate |-> q.startDate,
     endDate |-> q.endDate,
     categoryIds |-> NormalizeIds(q.categoryIds),
     type |-> IF q.type \in {Undefined, ""} THEN q.type
              ELSE toLowerCase(q.type),
     minAmount |-> [def |-> q.minAmount.kind # Undefined,
                    n |-> Number(q.minAmount).n],
     maxAmount |-> [def |-> q.maxAmount.kind # Undefined,
                    n |-> Number(q.maxAmount).n],
     search |-> [def |-> q.search.kind # Undefined,
                 text |-> trim(q.search.text)],
     sortBy |-> SortLookup(IF q.sortBy \in {Undefined, ""} THEN "trn_date"
                           ELSE q.sortBy),
     order |-> toUpperCase(IF q.order \in {Undefined, ""} THEN "desc"
                           ELSE q.order)]

\* The validations of the controller, in order: TRUE when one of them
\* answers 400.
Rejected(q) ==
    LET o == Options(q)
    IN \/ DateTruthy(q.startDate) /\ ~isValidISODate(q.startDate)
       \/ DateTruthy(q.endDate) /\ ~isValidISODate(q.endDate)
       \/ /\ DateTruthy(q.startDate)
          /\ DateTruthy(q.endDate)
          /\ q.startDate.day > q.endDate.day
       \/ q.type \notin {Undefined, ""}
             /\ toLowerCase(q.type) \notin {"income", "expense"}
       \/ q.minAmount.kind # Undefined /\ ~Number(q.minAmount).finite
       \/ q.maxAmount.kind # Undefined /\ ~Number(q.maxAmount).finite
       \/ /\ o.minAmount.def
          /\ o.maxAmount.def
          /\ o.maxAmount.n < o.minAmount.n
       \/ q.search.kind = "array"
       \/ q.search.kind = "string" /\ Len(o.search.text) > MaxSearchLength
       \/ o.sortBy = Undefined
       \/ toLowerCase(IF q.order \in {Undefined, ""} THEN "desc"
                      ELSE q.order) \notin allowedOrders

\* The response of GET / and what the store was asked: status; db (whether
\* fetchTransactions ran); the text and the values of the page query; the
\* page (trn ids), the attachments array of each of its items, and the
\* total.  r is the result of fetchTransactions and page the page the store
\* returned.
ListResponse(status, db, o, r, page) ==
    [status |-> status, db |-> db, options |-> o,
     whereClause |-> r.whereClause, params |-> r.params,
     orderBy |-> r.orderBy, order |-> r.order,
     data |-> page,
     attachments |-> [i \in DOMAIN page |-> r.attachments[page[i]]],
     total |-> r.total,
     hasMore |-> o.offset + o.limit < r.total]

NoResult ==
    [err |-> FALSE, whereClause |-> << >>, params |-> << >>,
     orderBy |-> "", order |-> "", pages |-> {<< >>},
     attachments |-> << >>, total |-> 0]

\* The responses GET / may give to query q of user userId over the tables
\* T and A
GetList(userId, q, T, A) ==
    LET o == Options(q)
        r == fetchFiltered(T, A, userId, o)
    IN IF Rejected(q)
       THEN {ListResponse(400, FALSE, o, NoResult, << >>)}
       ELSE IF r.err
       THEN {ListResponse(500, TRUE, o,
                          [r EXCEPT !.pages = {<< >>}], << >>)}
       ELSE {ListResponse(200, TRUE, o, r, page) : page \in r.pages}

\* ------------------------------------------------------------------------
\* Requests
\* ------------------------------------------------------------------------
\* The contents of the files one request uploads: none, one file, the same
\* content twice, two contents.  (The routes accept up to five files.)
FileLists == {<< >>, <<1>>, <<1, 1>>, <<1, 2>>}

NoFiles == {<< >>}

\* The calls that can throw in a request with n files.  (No file of an Add
\* is a duplicate when each is checked, so an Add unlinks none.)
AddFaults(n) ==
    {NoFault, FP("begin", 0), FP("commit", 0)}
      \cup {FP("check", i) : i \in 1..n}

UpdateFaults(n, delIds) ==
    {NoFault, FP("begin", 0), FP("commit", 0)}
      \cup {FP(o, i) : o \in {"check", "unlink"}, i \in 1..n}
      \cup (IF delIds # {}
            THEN {FP("selectPaths", 0), FP("deleteAtt", 0)}
                   \cup {FP("unlinkOld", i) : i \in delIds}
            ELSE {})

DeleteFaults ==
    {NoFault, FP("begin", 0), FP("commit", 0)}
      \cup {FP("unlinkOld", i) : i \in 1..(nextAttId - 1)}

\* trnId query parameters: missing, or an id issued so far
TrnIds == {NoTrnId} \cup 1..(nextTrnId - 1)

\* deleteAttachmentIds: at most two of the attachment ids issued so far
DeleteIdSets ==
    {ids \in SUBSET (1..(nextAttId - 1)) : Cardinality(ids) <= 2}


NoBody == Body({}, 0, FALSE)

\* The record of a request that has returned.  delIds and body are kept of
\* a request that succeeded (of the others they are left empty).
Request(op, r, userId, files, delIds, body) ==
    [op |-> op, status |-> r.status, scope |-> r.scope, userId |-> userId,
     trnId |-> r.id, files |-> Range(files),
     delIds |-> IF r.status = 200 THEN delIds ELSE {},
     body |-> IF r.status = 200 THEN body ELSE NoBody, db |-> r.db]

NoRequest ==
    [op |-> "none", status |-> 0, scope |-> "none", userId |-> 0,
     trnId |-> NoTrnId, files |-> {}, delIds |-> {}, body |-> NoBody,
     db |-> FALSE]

Respond(op, r, userId, files, delIds, body, np) ==
    /\ requests' = requests + 1
    /\ transactions' = r.T
    /\ transaction_attachments' = r.A
    /\ disk' = r.d
    /\ nextTrnId' = r.nT
    /\ nextAttId' = r.nA
    /\ nextPath' = np
    /\ last' = Request(op, r, userId, files, delIds, body)
    /\ deleted' = IF op = "delete" /\ r.status = 200
                  THEN deleted \cup {r.id} ELSE deleted
    /\ UNCHANGED <<version, listed, paging, race>>

\* Multer has room for the files of the request.
Uploadable(lists) ==
    {c \in lists : nextPath + Len(c) - 1 <= MaxPaths}

\* One POST /add: multer stores the files, the controller answers.
AddStep(userId, body, contents, fp) ==
    Respond("add",
            AddHandler(userId, body, ReqFiles(nextPath, contents),
                       MulterStore(disk, nextPath, contents), fp),
            userId, ReqFiles(nextPath, contents), {}, NoBody,
            nextPath + Len(contents))

AddReq(bodies, lists) ==
    /\ requests < MaxRequests
    /\ nextTrnId <= MaxTrns
    /\ \E userId \in Users, body \in bodies, contents \in Uploadable(lists) :
         \E fp \in AddFaults(Len(contents)) :
           AddStep(userId, body, contents, fp)

\* One PUT /update: multer stores the files, the controller of the deployed
\* revision answers.
UpdateStep(userId, trnId, body, delIds, contents, fp) ==
    LET files == ReqFiles(nextPath, contents)
        dsk == MulterStore(disk, nextPath, contents)
    IN Respond("update",
               IF version = "partial"
               THEN UpdatePartial(userId, trnId, body, delIds, files,
                                  dsk, fp)
               ELSE UpdateFull(userId, trnId, body, delIds, files,
                               dsk, fp),
               userId, files, delIds, body,
               nextPath + Len(contents))

UpdateReq(bodies, idSets, lists) ==
    /\ requests < MaxRequests
    /\ \E userId \in Users, trnId \in TrnIds, body \in bodies,
          delIds \in idSets, contents \in Uploadable(lists) :
         \E fp \in UpdateFaults(Len(contents), delIds) :
           UpdateStep(userId, trnId, body, delIds, contents, fp)

\* One DELETE /delete: the controller of the deployed revision answers.
DeleteStep(userId, trnId, fp) ==
    Respond("delete",
            IF version = "partial"
            THEN DeletePartial(userId, trnId, disk, fp)
            ELSE DeleteFull(userId, trnId, disk, fp),
            userId, <<>>, {}, NoBody, nextPath)

Delete ==
    /\ requests < MaxRequests
    /\ \E userId \in Users, trnId \in TrnIds, fp \in DeleteFaults :
         DeleteStep(userId, trnId, fp)

\* The attachment scenarios: plain bodies, files, attachment removal.
Add == AddReq(PlainBodies(AddValue), FileLists)

Update == UpdateReq(PlainBodies(UpdateValue), DeleteIdSets, FileLists)

\* The column scenarios: every body, no files.
AddFields == AddReq({Body(FieldNames, AddValue, FALSE)}, NoFiles)

UpdateFields == UpdateReq(Bodies(UpdateValue), {{}}, NoFiles)

\* ------------------------------------------------------------------------
\* GET / requests
\* ------------------------------------------------------------------------
\* The query string without any parameter
NoQuery ==
    Query(NoDate, NoDate, NoIds, Undefined, NoNumber, NoNumber, NoSearch,
          Undefined, Undefined, NoNumber, NoNumber)

\* The record of a GET / that has returned
Listed(userId, q, resp) == [userId |-> userId, q |-> q, r |-> resp]

NoList ==
    Listed(0, NoQuery,
           ListResponse(0, FALSE, Options(NoQuery), NoResult, << >>))

\* One GET /: the controller answers; the tables do not change.
ListStep(userId, q) ==
    /\ requests < MaxLists
    /\ requests' = requests + 1
    /\ \E resp \in GetList(userId, q, transactions,
                             transaction_attachments) :
          listed' = Listed(userId, q, resp)
    /\ UNCHANGED <<version, transactions, transaction_attachments, disk,
                   nextTrnId, nextAttId, nextPath, last, deleted, paging,
                   race>>

ListReq(queries) == \E userId \in Users, q \in queries : ListStep(userId, q)

\* A client that reads the list of query q page by page: every page is one
\* GET / with the same filters, sort and take, and skip advanced by take;
\* the client goes on while the response says hasMore.  q is the query of
\* the last page read, items are the trn ids received so far, in order.
Paging(state, userId, q, items, total) ==
    [state |-> state, userId |-> userId, q |-> q, items |-> items,
     total |-> total]

NoPaging == Paging("none", 0, NoQuery, << >>, 0)

\* One page: one GET /; the tables do not change.
PageStep(userId, q) ==
    /\ \E resp \in GetList(userId, q, transactions,
                            transaction_attachments) :
          /\ resp.status = 200
          /\ paging' = Paging(IF resp.hasMore THEN "open" ELSE "done",
                              userId, q, paging.items \o resp.data,
                              resp.total)
    /\ UNCHANGED <<version, transactions, transaction_attachments, disk,
                   nextTrnId, nextAttId, nextPath, last, requests, deleted,
                   listed, race>>

\* The first page of a sorted list
PageFirst ==
    /\ paging.state = "none"
    /\ \E userId \in Users, ty \in {Undefined, "Expense"},
          sb \in {"amount", "trn_date", "categoryName"},
          od \in {"asc", "desc"}, k \in 1..MaxPageSize :
         PageStep(userId,
                  Query(NoDate, NoDate, NoIds, ty, NoNumber, NoNumber,
                        NoSearch, sb, od, RawNumber("numeral", k),
                        RawNumber("numeral", 0)))

\* The next page
PageNext ==
    /\ paging.state = "open"
    /\ PageStep(paging.userId,
                [paging.q EXCEPT
                   !.skip = RawNumber("numeral", @.n + paging.q.take.n)])

\* Query values of the scenarios
RawDates ==
    {NoDate, RawDate("empty", 0), RawDate("iso", 2), RawDate("iso", 3),
     RawDate("invalid", 0), RawDate("garbage", 0)}

RawAmounts ==
    {NoNumber, RawNumber("empty", 0), RawNumber("garbage", 0),
     RawNumber("numeral", 0), RawNumber("numeral", 50),
     RawNumber("numeral", 200)}

RawTypes == {Undefined, "", "income", "Expense", "bogus"}

RawIdLists ==
    {NoIds, RawIds("string", <<1>>), RawIds("string", <<-1>>),
     RawIds("array", << >>), RawIds("array", <<2>>),
     RawIds("array", <<1, 2>>), RawIds("array", <<2, -1>>),
     RawIds("array", <<1, 2, 7>>)}

LongText == [i \in 1..(MaxSearchLength + 1) |-> "a"]

RawSearches ==
    {NoSearch, RawSearch("string", << >>), RawSearch("string", <<"a">>),
     RawSearch("string", <<"b">>), RawSearch("string", <<" ", "a", " ">>),
     RawSearch("string", <<" ">>), RawSearch("string", <<"%">>),
     RawSearch("string", <<"_">>), RawSearch("string", LongText),
     RawSearch("array", << >>)}

RawSorts ==
    {Undefined, "", "amount", "trn_date", "categoryName", "t.amount",
     "constructor", "toString"}

RawOrders == {Undefined, "asc", "desc", "ASC", "Desc", "bogus"}

RawPages ==
    {NoNumber, RawNumber("garbage", 0), RawNumber("numeral", -1),
     RawNumber("numeral", 0), RawNumber("numeral", 1),
     RawNumber("numeral", 2)}

\* Every combination of present and absent filters, one value each
ListFilters ==
    ListReq({Query(sd, ed, ids, ty, mn, mx, se, Undefined, Undefined,
                   NoNumber, NoNumber) :
               sd \in {NoDate, RawDate("iso", 2)},
               ed \in {NoDate, RawDate("iso", 3)},
               ids \in {NoIds, RawIds("array", <<2>>)},
               ty \in {Undefined, "Expense"},
               mn \in {NoNumber, RawNumber("numeral", 50)},
               mx \in {NoNumber, RawNumber("numeral", 200)},
               se \in {NoSearch, RawSearch("string", <<"a">>)}})

\* Date ranges
ListDates ==
    ListReq({Query(sd, ed, NoIds, Undefined, NoNumber, NoNumber, NoSearch,
                   Undefined, Undefined, NoNumber, NoNumber) :
               sd \in RawDates, ed \in RawDates})

\* Amount ranges and types
ListAmounts ==
    ListReq({Query(NoDate, NoDate, NoIds, ty, mn, mx, NoSearch, Undefined,
                   Undefined, NoNumber, NoNumber) :
               ty \in {Undefined, "Expense"}, mn \in RawAmounts,
               mx \in RawAmounts}
            \cup {Query(NoDate, NoDate, NoIds, ty, NoNumber, NoNumber,
                        NoSearch, Undefined, Undefined, NoNumber, NoNumber) :
                     ty \in RawTypes})

\* Category id lists and search strings
ListCategories ==
    ListReq({Query(NoDate, NoDate, ids, Undefined, NoNumber, NoNumber, se,
                   Undefined, Undefined, NoNumber, NoNumber) :
               ids \in RawIdLists, se \in RawSearches})

\* Sorting
ListSorted ==
    ListReq({Query(NoDate, NoDate, NoIds, Undefined, NoNumber, NoNumber,
                   NoSearch, sb, od, NoNumber, NoNumber) :
               sb \in RawSorts, od \in RawOrders})

\* Pagination
ListPaged ==
    ListReq({Query(NoDate, NoDate, NoIds, ty, NoNumber, NoNumber, NoSearch,
                   Undefined, Undefined, tk, sk) :
               ty \in {Undefined, "income"}, tk \in RawPages,
               sk \in RawPages})

\* The rows of the list scenarios: user 1 has amounts 10, 75, 150, 300 with
\* types Income, Expense, Expense, Expense; user 2 has two rows.
Fixture ==
    {TrnRow(1, 1, AddValue, 10, SqlNull, 1),
     TrnRow(2, 1, UpdateValue, 75, 1, 2),
     TrnRow(3, 1, UpdateValue, 150, 2, 3),
     TrnRow(4, 1, UpdateValue, 300, SqlNull, 4),
     TrnRow(5, 2, UpdateValue, 75, 1, 2),
     TrnRow(6, 2, UpdateValue, 10, 3, 1)}

\* ------------------------------------------------------------------------
\* Two concurrent requests, statement by statement
\* ------------------------------------------------------------------------
\* Two requests of the owner against transaction RaceTrn run at the same
\* time, each on its own connection of the pool; the handlers are those of
\* src/unnamed/part_004.  A step of a request is one awaited statement with
\* the synchronous code that follows it up to the next await.  The store
\* is InnoDB at its default isolation level (REPEATABLE READ): a plain
\* SELECT reads the snapshot the connection took at its first plain SELECT;
\* UPDATE and DELETE read the committed rows and lock the rows they change
\* until commit or rollback; an INSERT into transaction_attachments
\* share-locks the parent row of its foreign key (the ON DELETE CASCADE the
\* DELETE handler relies on) and fails when there is no parent; a statement
\* that needs a lock another connection holds waits.
Procs == {1, 2}

RaceTrn == 1

RaceUser == 1

\* The snapshot of a connection: none before its first plain SELECT
NoSnapshot == [taken |-> FALSE, T |-> {}, A |-> {}]

\* One request: op ("update" | "delete"), cols (an Update that also
\* supplies columns), pc (the statement it is about to issue), file (the
\* path multer gave its upload, 0: none), snap, lock (on the row of
\* RaceTrn: "none", "S", "X"), paths (the file paths a Delete selected),
\* values (the attachment rows inserted and not yet committed), status
\* (0: no response yet).
Proc(op, cols, pc, file, snap, lock, paths, values, status) ==
    [op |-> op, cols |-> cols, pc |-> pc, file |-> file, snap |-> snap,
     lock |-> lock, paths |-> paths, values |-> values, status |-> status]

\* No request in flight
NoRace ==
    [p \in Procs |->
        Proc("none", FALSE, "done", 0, NoSnapshot, "none", {}, {}, 0)]

Other(p) == CHOOSE q \in Procs : q # p

\* The response: the connection is released (rollback or commit done).
Finish(pr, status) ==
    [pr EXCEPT !.pc = "done", !.status = status, !.lock = "none",
               !.values = {}]

\* The snapshot connection p reads: the one it has, else the one it takes
\* now
SnapshotOf(p) ==
    IF race[p].snap.taken THEN race[p].snap
    ELSE [taken |-> TRUE, T |-> transactions, A |-> transaction_attachments]

RaceFrame ==
    UNCHANGED <<version, nextTrnId, last, requests, deleted, listed, paging>>

\* multer stores the uploaded file (content 1 for both requests); the
\* handler gets a connection and begins its transaction.
RaceUpload(p) ==
    /\ race[p].pc = "upload"
    /\ disk' = MulterStore(disk, nextPath, <<1>>)
    /\ nextPath' = nextPath + 1
    /\ race' = [race EXCEPT ![p].pc = "own", ![p].file = nextPath]
    /\ UNCHANGED <<transactions, transaction_attachments, nextAttId>>
    /\ RaceFrame

\* UPDATE transactions SET ... WHERE trn_id = ? AND user_id = ? (columns
\* supplied), else SELECT 1 FROM transactions WHERE ...; 404 after rollback
\* when no row matches.
RaceOwn(p) ==
    LET pr == race[p]
        found == IF pr.cols
                 THEN \E t \in transactions : OwnedBy(t, RaceTrn, RaceUser)
                 ELSE \E t \in SnapshotOf(p).T :
                         OwnedBy(t, RaceTrn, RaceUser)
    IN /\ pr.pc = "own"
       /\ (pr.cols /\ found) => race[Other(p)].lock = "none"
       /\ race' = [race EXCEPT ![p] =
             IF ~found THEN Finish(pr, 404)
             ELSE [pr EXCEPT !.pc = "check",
                             !.lock = IF pr.cols THEN "X" ELSE "none",
                             !.snap = IF pr.cols THEN pr.snap
                                      ELSE SnapshotOf(p)]]
       /\ UNCHANGED <<transactions, transaction_attachments, disk,
                      nextAttId, nextPath>>
       /\ RaceFrame

\* getFileHash and the duplicate check SELECT 1 FROM transaction_attachments
\* WHERE trn_id = ? AND file_hash = ?; a duplicate is unlinked.
RaceCheck(p) ==
    LET pr == race[p]
        dup == HashExists(SnapshotOf(p).A, RaceTrn,
                          getFileHash(disk, pr.file))
    IN /\ pr.pc = "check"
       /\ disk' = IF dup THEN unlinkSync(disk, pr.file) ELSE disk
       /\ race' = [race EXCEPT ![p].snap = SnapshotOf(p),
                               ![p].pc = IF dup THEN "commit" ELSE "insert"]
       /\ UNCHANGED <<transactions, transaction_attachments, nextAttId,
                      nextPath>>
       /\ RaceFrame

\* INSERT INTO transaction_attachments (...) VALUES ?; without parent row
\* the statement throws: catch, rollback, cleanup of the upload, 500.
RaceInsert(p) ==
    LET pr == race[p]
        parent == \E t \in transactions : t.trn_id = RaceTrn
    IN /\ pr.pc = "insert"
       /\ race[Other(p)].lock # "X"
       /\ IF parent
          THEN /\ race' = [race EXCEPT
                             ![p].pc = "commit",
                             ![p].lock = IF pr.lock = "X" THEN "X" ELSE "S",
                             ![p].values =
                                {AttRow(nextAttId, RaceTrn, pr.file,
                                        getFileHash(disk, pr.file))}]
               /\ nextAttId' = nextAttId + 1
               /\ disk' = disk
          ELSE /\ race' = [race EXCEPT ![p] = Finish(pr, 500)]
               /\ nextAttId' = nextAttId
               /\ disk' = CleanupUploads(disk, <<pr.file>>)
       /\ UNCHANGED <<transactions, transaction_attachments, nextPath>>
       /\ RaceFrame

\* conn.commit() of the Update, 200
RaceUpdateCommit(p) ==
    LET pr == race[p]
    IN /\ pr.pc = "commit"
       /\ pr.op = "update"
       /\ transactions' =
             IF pr.cols
             THEN UpdateSupplied(transactions, RaceTrn, RaceUser,
                                 Body(Required, UpdateValue, FALSE))
             ELSE transactions
       /\ transaction_attachments' = transaction_attachments \cup pr.values
       /\ race' = [race EXCEPT ![p] = Finish(pr, 200)]
       /\ UNCHANGED <<disk, nextAttId, nextPath>>
       /\ RaceFrame

\* SELECT file_path FROM transaction_attachments WHERE trn_id = ?
RaceSelect(p) ==
    /\ race[p].pc = "select"
    /\ race' = [race EXCEPT
                  ![p].pc = "delete",
                  ![p].snap = SnapshotOf(p),
                  ![p].paths = {a.file_path :
                                  a \in AttachmentsOf(SnapshotOf(p).A,
                                                      RaceTrn)}]
    /\ UNCHANGED <<transactions, transaction_attachments, disk, nextAttId,
                   nextPath>>
    /\ RaceFrame

\* DELETE FROM transactions WHERE user_id = ? AND trn_id = ?; 404 after
\* rollback when no row matches, else the selected files are unlinked.
RaceDelete(p) ==
    LET pr == race[p]
        found == \E t \in transactions : OwnedBy(t, RaceTrn, RaceUser)
    IN /\ pr.pc = "delete"
       /\ found => race[Other(p)].lock = "none"
       /\ race' = [race EXCEPT ![p] =
             IF ~found THEN Finish(pr, 404)
             ELSE [pr EXCEPT !.pc = "commit", !.lock = "X"]]
       /\ disk' = IF found
                  THEN [q \in (DOMAIN disk) \ pr.paths |-> disk[q]]
                  ELSE disk
       /\ UNCHANGED <<transactions, transaction_attachments, nextAttId,
                      nextPath>>
       /\ RaceFrame

\* conn.commit() of the Delete, 200: the row and, by ON DELETE CASCADE, its
\* attachment rows are gone.
RaceDeleteCommit(p) ==
    LET pr == race[p]
    IN /\ pr.pc = "commit"
       /\ pr.op = "delete"
       /\ transactions' = DeleteOwned(transactions, RaceTrn, RaceUser)
       /\ transaction_attachments' =
             CascadeDelete(transaction_attachments, RaceTrn)
       /\ race' = [race EXCEPT ![p] = Finish(pr, 200)]
       /\ UNCHANGED <<disk, nextAttId, nextPath>>
       /\ RaceFrame

\* ------------------------------------------------------------------------
\* Specifications
\* ------------------------------------------------------------------------
Init ==
    /\ version \in {"full", "partial"}
    /\ transactions = {}
    /\ transaction_attachments = {}
    /\ disk = << >>
    /\ nextTrnId = 1
    /\ nextAttId = 1
    /\ nextPath = 1
    /\ last = NoRequest
    /\ requests = 0
    /\ deleted = {}
    /\ listed = NoList
    /\ paging = NoPaging
    /\ race = NoRace

Next == Add \/ Update \/ Delete

Spec == Init /\ [][Next]_vars

NextFields == AddFields \/ UpdateFields

SpecFields == Init /\ [][NextFields]_vars

\* The upload scenarios: requests with the required columns and files, in
\* which no call throws.
AddUpload ==
    /\ requests < MaxRequests
    /\ nextTrnId <= MaxTrns
    /\ \E userId \in Users, contents \in Uploadable(FileLists) :
         AddStep(userId, Body(Required, AddValue, FALSE), contents, NoFault)

UpdateUpload ==
    /\ requests < MaxRequests
    /\ \E userId \in Users, trnId \in TrnIds,
          contents \in Uploadable(FileLists) :
         UpdateStep(userId, trnId, Body(Required, UpdateValue, FALSE), {},
                    contents, NoFault)

NextUploads == AddUpload \/ UpdateUpload

SpecUploads == Init /\ [][NextUploads]_vars

\* The scenarios in which no call throws: Adds with files, Updates that
\* remove attachments and add files, Deletes.
UpdateClean ==
    /\ requests < MaxRequests
    /\ \E userId \in Users, trnId \in TrnIds,
          body \in PlainBodies(UpdateValue), delIds \in DeleteIdSets,
          contents \in Uploadable(FileLists) :
         UpdateStep(userId, trnId, body, delIds, contents, NoFault)

DeleteClean ==
    /\ requests < MaxRequests
    /\ \E userId \in Users, trnId \in TrnIds :
         DeleteStep(userId, trnId, NoFault)

NextClean == AddUpload \/ UpdateClean \/ DeleteClean

SpecClean == Init /\ [][NextClean]_vars

\* The attachment rows of the list scenarios: transaction 2 has two
\* attachments, transactions 3 and 5 have one, the others have none.
FixtureAttachments ==
    {AttRow(1, 2, 1, Sha256(1)), AttRow(2, 2, 2, Sha256(2)),
     AttRow(3, 3, 3, Sha256(1)), AttRow(4, 5, 4, Sha256(1))}

\* The list scenarios: the tables hold the fixture rows (added by six
\* POST /add of the revision that has the filters).
InitList ==
    /\ version = "partial"
    /\ transactions = Fixture
    /\ transaction_attachments = FixtureAttachments
    /\ disk = [p \in {a.file_path : a \in FixtureAttachments} |->
                 IF p = 2 THEN 2 ELSE 1]
    /\ nextTrnId = Cardinality(Fixture) + 1
    /\ nextAttId = Cardinality(FixtureAttachments) + 1
    /\ nextPath = Cardinality(FixtureAttachments) + 1
    /\ last = NoRequest
    /\ requests = 0
    /\ deleted = {}
    /\ listed = NoList
    /\ paging = NoPaging
    /\ race = NoRace

NextList ==
    \/ ListFilters
    \/ ListDates
    \/ ListAmounts
    \/ ListCategories
    \/ ListSorted
    \/ ListPaged

SpecList == InitList /\ [][NextList]_vars

\* The concurrent scenarios: transaction RaceTrn of RaceUser has one
\* attachment (content 2); each of the two requests is an Update that
\* uploads content 1, with or without columns, or a Delete.
InitRace ==
    /\ version = "partial"
    /\ transactions = {TrnRow(RaceTrn, RaceUser, AddValue, AddValue,
                              SqlNull, AddValue)}
    /\ transaction_attachments = {AttRow(1, RaceTrn, 1, Sha256(2))}
    /\ disk = <<2>>
    /\ nextTrnId = 2
    /\ nextAttId = 2
    /\ nextPath = 2
    /\ last = NoRequest
    /\ requests = 0
    /\ deleted = {}
    /\ listed = NoList
    /\ paging = NoPaging
    /\ race \in
          [Procs ->
             {Proc("update", cols, "upload", 0, NoSnapshot, "none", {}, {}, 0) :
                 cols \in BOOLEAN}
             \cup {Proc("delete", FALSE, "select", 0, NoSnapshot, "none", {},
                        {}, 0)}]

NextRace ==
    \E p \in Procs :
       \/ RaceUpload(p)
       \/ RaceOwn(p)
       \/ RaceCheck(p)
       \/ RaceInsert(p)
       \/ RaceUpdateCommit(p)
       \/ RaceSelect(p)
       \/ RaceDelete(p)
       \/ RaceDeleteCommit(p)

SpecRace == InitRace /\ [][NextRace]_vars

\* The paging scenarios, over the same tables
NextPages == PageFirst \/ PageNext

SpecPages == InitList /\ [][NextPages]_vars

\* ========================================================================
\* Claims
\* ========================================================================
\* The rows of transaction id in table T
RowsOf(T, id) == {t \in T : t.trn_id = id}

\* Every file of directory d is in directory e with the same content.
FilesKept(d, e) ==
    \A p \in DOMAIN d : p \in DOMAIN e /\ e[p] = d[p]

\* C1: when an Add fails after its transactional scope was opened, no
\* transaction row and no attachment row of the request is committed and
\* none of the files uploaded with the request is left on disk.
C1_AddFailureLeavesNothing ==
    (last.op = "add" /\ last.status = 500) =>
        /\ RowsOf(transactions, last.trnId) = {}
        /\ AttachmentsOf(transaction_attachments, last.trnId) = {}
        /\ last.files \cap DOMAIN disk = {}

\* C2: after any sequence of Add, Update and Delete requests, failed ones
\* included, every committed attachment row refers to a file on disk.
C2_RowsReferToFiles ==
    \A a \in transaction_attachments : existsSync(disk, a.file_path)

\* C3: each (transaction, content hash) pair has at most one committed
\* attachment row.
C3_OneRowPerHash ==
    \A a, b \in transaction_attachments :
        (a.trn_id = b.trn_id /\ a.file_hash = b.file_hash) => a = b

\* C4: a request rejected with a validation error made no store access and
\* leaves none of its uploaded files on disk.
C4_ValidationNoEffects ==
    (last.op \in {"add", "update"} /\ last.status = 422) =>
        /\ ~last.db
        /\ last.files \cap DOMAIN disk = {}

\* C5: an Update answered Not Found has rolled its scope back, changed no
\* row and left none of its uploaded files on disk.
C5_NotFoundNoEffects ==
    [][(last'.op = "update" /\ last'.status = 404) =>
          /\ last'.scope = "rolledback"
          /\ transactions' = transactions
          /\ transaction_attachments' = transaction_attachments
          /\ last'.files \cap DOMAIN disk' = {}]_vars

\* C6: an Update or Delete whose (transaction id, caller) pair matches no
\* transaction row leaves every transaction row, every attachment row and
\* every file that was on disk before the request unchanged.
C6_NoMatchNoChange ==
    [][(/\ last'.op \in {"update", "delete"}
        /\ ~\E t \in transactions :
              t.trn_id = last'.trnId /\ t.user_id = last'.userId) =>
          /\ transactions' = transactions
          /\ transaction_attachments' = transaction_attachments
          /\ FilesKept(disk, disk')]_vars

\* C6 witness: user B's Delete of user A's transaction, which has an
\* attachment file on disk, was answered Not Found.
C6_Witness ==
    /\ last.op = "delete"
    /\ last.status = 404
    /\ \E t \in transactions :
          /\ t.trn_id = last.trnId
          /\ t.user_id # last.userId
          /\ \E a \in AttachmentsOf(transaction_attachments, t.trn_id) :
                existsSync(disk, a.file_path)

\* C7: when an Update fails (answers 500) after its scope was opened, the
\* transaction's columns and its attachment rows are as before the request
\* and every file uploaded with the request is gone from disk.
C7_UpdateFailureRestores ==
    [][(/\ last'.op = "update"
        /\ last'.status = 500) =>
          /\ RowsOf(transactions', last'.trnId)
                = RowsOf(transactions, last'.trnId)
          /\ AttachmentsOf(transaction_attachments', last'.trnId)
                = AttachmentsOf(transaction_attachments, last'.trnId)
          /\ last'.files \cap DOMAIN disk' = {}]_vars

\* C8: after a successful Delete the transaction row and its attachment rows
\* are gone and every file those rows referred to is absent from disk; no
\* later list of any user contains a deleted transaction.
C8_DeleteRemovesAll ==
    [][/\ (last'.op = "delete" /\ last'.status = 200) =>
            /\ RowsOf(transactions', last'.trnId) = {}
            /\ AttachmentsOf(transaction_attachments', last'.trnId) = {}
            /\ \A a \in AttachmentsOf(transaction_attachments, last'.trnId) :
                  ~existsSync(disk', a.file_path)
       /\ \A id \in deleted', u \in Users :
            id \notin fetchTransactions(transactions', u)]_vars

\* C8 witness: the second request deleted a transaction that the first one
\* had added with attachments.
C8_Witness ==
    /\ last.op = "delete"
    /\ last.status = 200
    /\ requests = 2
    /\ nextAttId > 1
    /\ last.trnId \in deleted

\* C9: a successful Update with deleteAttachmentIds = [X], no file and no
\* column removes the row of X and its file, leaves every other attachment
\* row and every other file unchanged, and leaves the transaction rows
\* unchanged.
C9_DeleteOneAttachment ==
    [][\A x \in 1..(nextAttId - 1) :
         (/\ last'.op = "update"
          /\ last'.status = 200
          /\ last'.delIds = {x}
          /\ last'.files = {}
          /\ DOMAIN last'.body = {}
          /\ \E a \in AttachmentsOf(transaction_attachments, last'.trnId) :
                a.attachment_id = x) =>
            LET gone == {a \in transaction_attachments :
                            a.attachment_id = x}
            IN /\ transaction_attachments' = transaction_attachments \ gone
               /\ \A a \in gone : ~existsSync(disk', a.file_path)
               /\ \A p \in DOMAIN disk :
                     p \notin {a.file_path : a \in gone} =>
                        (p \in DOMAIN disk' /\ disk'[p] = disk[p])
               /\ DOMAIN disk' \subseteq DOMAIN disk
               /\ transactions' = transactions]_vars

\* C9 witness: attachment X was removed by such an Update and another
\* attachment of the transaction is still there with its file.
C9_Witness ==
    /\ last.op = "update"
    /\ last.status = 200
    /\ Cardinality(last.delIds) = 1
    /\ last.files = {}
    /\ DOMAIN last.body = {}
    /\ \A a \in transaction_attachments : a.attachment_id \notin last.delIds
    /\ \E a \in AttachmentsOf(transaction_attachments, last.trnId) :
          existsSync(disk, a.file_path)
    /\ Cardinality(DOMAIN disk) < nextPath - 1

\* The value a supplied column is stored as
Stored(body, f) ==
    IF f = "note" /\ body[f] = EmptyStr THEN SqlNull ELSE body[f]

\* Column f of row u is what the body makes of column f of row t.
ColumnAfter(t, u, body, f, col) ==
    IF f \in DOMAIN body THEN u[col] = Stored(body, f) ELSE u[col] = t[col]

\* C10: a successful Update changes exactly the supplied columns of the row
\* matching the transaction id and the caller; columns not supplied keep
\* their values and no other row changes.
C10_OnlySuppliedColumns ==
    [][(last'.op = "update" /\ last'.status = 200) =>
          /\ Cardinality(transactions') = Cardinality(transactions)
          /\ \A t \in transactions :
               IF t.trn_id = last'.trnId /\ t.user_id = last'.userId
               THEN \E u \in transactions' :
                      /\ u.trn_id = t.trn_id
                      /\ u.user_id = t.user_id
                      /\ ColumnAfter(t, u, last'.body, "categoryId",
                                     "category_id")
                      /\ ColumnAfter(t, u, last'.body, "amount", "amount")
                      /\ ColumnAfter(t, u, last'.body, "note", "note")
                      /\ ColumnAfter(t, u, last'.body, "trnDate",
                                     "trn_date")
               ELSE t \in transactions']_vars

\* C11: a fault-free Update of an owned transaction whose uploaded files all
\* have the content hash of an attachment already linked to that transaction
\* succeeds, adds no attachment row and deletes the incoming files: the
\* attachment rows and the disk are as they were before the request.
C11_DuplicateSkipped ==
    [][\A userId \in Users, trnId \in 1..MaxTrns,
          contents \in FileLists \ {<< >>} :
         (/\ last'.op = "update"
          /\ \E t \in transactions :
                t.trn_id = trnId /\ t.user_id = userId
          /\ \A i \in DOMAIN contents :
                \E a \in transaction_attachments :
                   a.trn_id = trnId /\ a.file_hash = Sha256(contents[i])
          /\ UpdateStep(userId, trnId, Body(Required, UpdateValue, FALSE),
                        {}, contents, NoFault)) =>
            /\ last'.status = 200
            /\ transaction_attachments' = transaction_attachments
            /\ disk' = disk]_vars

\* C11 witness: an Update that uploaded a file succeeded, the file is gone
\* from disk and the transaction still has the attachment it had.
C11_Witness ==
    /\ last.op = "update"
    /\ last.status = 200
    /\ last.files # {}
    /\ last.files \cap DOMAIN disk = {}
    /\ \E a \in AttachmentsOf(transaction_attachments, last.trnId) :
          existsSync(disk, a.file_path)

\* The attachment row a request adds for the file it stored at path p with
\* content c.
LinkedAs(A, B, trnId, p, c, dsk) ==
    /\ A \subseteq B
    /\ Cardinality(B \ A) = 1
    /\ \E a \in B \ A :
          a.trn_id = trnId /\ a.file_path = p /\ a.file_hash = Sha256(c)
    /\ existsSync(dsk, p)
    /\ dsk[p] = c

\* C12: a successful Add or Update that uploads one file whose content hash
\* is not linked to its own transaction adds exactly one attachment row for
\* it and keeps the file, whatever attachments other transactions and other
\* users have.
C12_NoCrossTransactionDedupe ==
    [][\A userId \in Users, c \in Contents :
         /\ (/\ last'.op = "add"
             /\ last'.status = 201
             /\ AddStep(userId, Body(Required, AddValue, FALSE), <<c>>,
                        NoFault)) =>
               LinkedAs(transaction_attachments, transaction_attachments',
                        last'.trnId, nextPath, c, disk')
         /\ \A trnId \in 1..MaxTrns :
              (/\ last'.op = "update"
               /\ last'.status = 200
               /\ ~\E a \in transaction_attachments :
                     a.trn_id = trnId /\ a.file_hash = Sha256(c)
               /\ UpdateStep(userId, trnId,
                             Body(Required, UpdateValue, FALSE), {}, <<c>>,
                             NoFault)) =>
                 LinkedAs(transaction_attachments, transaction_attachments',
                          trnId, nextPath, c, disk')]_vars

\* C12 witness: two transactions of different users each have an attachment
\* row with the same content hash, each with its own file on disk.
C12_Witness ==
    \E a, b \in transaction_attachments :
       /\ a.trn_id # b.trn_id
       /\ a.file_hash = b.file_hash
       /\ a.file_path # b.file_path
       /\ existsSync(disk, a.file_path)
       /\ existsSync(disk, b.file_path)
       /\ \E t, u \in transactions :
             /\ t.trn_id = a.trn_id
             /\ u.trn_id = b.trn_id
             /\ t.user_id # u.user_id

\* The category is the private category of a user other than u.
PrivateToOther(categoryId, u) ==
    \E k \in categories :
       /\ k.category_id = categoryId
       /\ k.user_id # SqlNull
       /\ k.user_id # u

\* C13: an Add whose categoryId is a category privately owned by another
\* user is rejected and creates no transaction row.
C13_ForeignCategoryRejected ==
    [][\A userId \in Users, contents \in FileLists :
         LET body == Body(Required, AddValue, FALSE)
         IN (/\ last'.op = "add"
             /\ PrivateToOther(body["categoryId"], userId)
             /\ AddStep(userId, body, contents, NoFault)) =>
               /\ last'.status # 201
               /\ transactions' = transactions]_vars

\* ------------------------------------------------------------------------
\* Claims about GET /
\* ------------------------------------------------------------------------
\* The values buildTransactionFilters returned, out of the values of the
\* page query [userId, ...params, limit, offset]
BuilderParams(r) == SubSeq(r.params, 2, Len(r.params) - 2)

\* Positions of word x in a predicate, and the k-th of a set of positions
PositionsOf(words, x) == {i \in DOMAIN words : words[i] = x}

Nth(P, k) == CHOOSE i \in P : Cardinality({j \in P : j < i}) = k - 1

\* The words a predicate is written with; no request value is among them.
SqlWords ==
    {"AND", "OR", "IN", "LIKE", "(", ")", ",", "?", ">=", "<=", "=",
     "t.trn_date", "t.category_id", "c.type", "t.amount", "t.note",
     "c.name"}

ColumnWords ==
    {"t.trn_date", "t.category_id", "c.type", "t.amount", "t.note", "c.name"}

\* The last word of set W before position i
LastBefore(words, i, W) ==
    words[CHOOSE j \in 1..i :
             /\ words[j] \in W
             /\ \A k \in (j + 1)..i : words[k] \notin W]

\* The filter whose clause holds the placeholder at position i
FilterAt(words, i) ==
    LET col == LastBefore(words, i, ColumnWords)
        op == LastBefore(words, i, {">=", "<=", "=", "IN", "LIKE"})
    IN CASE col = "t.trn_date" -> IF op = ">=" THEN "startDate"
                                  ELSE "endDate"
         [] col = "t.category_id" -> "categoryIds"
         [] col = "c.type" -> "type"
         [] col = "t.amount" -> IF op = ">=" THEN "minAmount"
                                ELSE "maxAmount"
         [] OTHER -> "search"

\* The values filter name must be bound to, from the options o
ValuesOf(o, name) ==
    CASE name = "startDate" -> <<Param(name, o.startDate.day, "", << >>)>>
      [] name = "endDate" -> <<Param(name, o.endDate.day, "", << >>)>>
      [] name = "categoryIds" ->
           [i \in 1..Len(o.categoryIds) |->
              Param(name, o.categoryIds[i], "", << >>)]
      [] name = "type" -> <<Param(name, 0, o.type, << >>)>>
      [] name = "minAmount" -> <<Param(name, o.minAmount.n, "", << >>)>>
      [] name = "maxAmount" -> <<Param(name, o.maxAmount.n, "", << >>)>>
      [] name = "search" ->
           <<Param(name, 0, "", <<"%">> \o o.search.text \o <<"%">>),
             Param(name, 0, "", <<"%">> \o o.search.text \o <<"%">>)>>

FilterNames ==
    <<"startDate", "endDate", "categoryIds", "type", "minAmount",
      "maxAmount", "search">>

\* C14: in every query that was run, the predicate has as many ? as the
\* builder returned values, the k-th value is the one of the filter whose
\* clause holds the k-th ?, the values of each filter are those of the
\* request, and the predicate is written with the fixed words only.
C14_PlaceholdersMatchParams ==
    listed.r.db =>
        LET w == listed.r.whereClause
            ps == BuilderParams(listed.r)
            P == PositionsOf(w, "?")
        IN /\ Cardinality(P) = Len(ps)
           /\ \A k \in 1..Cardinality(P) :
                 k <= Len(ps) => ps[k].for = FilterAt(w, Nth(P, k))
           /\ \A i \in DOMAIN FilterNames :
                 LET mine == SelectSeq(ps, LAMBDA x : x.for = FilterNames[i])
                 IN mine # << >> =>
                       mine = ValuesOf(listed.r.options, FilterNames[i])
           /\ \A i \in DOMAIN w : w[i] \in SqlWords

\* C14 witness: a query with all seven filters has run.
C14_Witness ==
    /\ listed.r.status = 200
    /\ Len(BuilderParams(listed.r)) = 8
    /\ \A i \in DOMAIN FilterNames :
          \E k \in DOMAIN BuilderParams(listed.r) :
             BuilderParams(listed.r)[k].for = FilterNames[i]

\* The filters present in the options handed to the builder, in the order
\* of the builder
PresentFilters(o) ==
    (IF o.startDate.kind \notin {Undefined, "empty"} THEN <<"startDate">>
     ELSE << >>)
    \o (IF o.endDate.kind \notin {Undefined, "empty"} THEN <<"endDate">>
        ELSE << >>)
    \o (IF o.categoryIds # << >> THEN <<"categoryIds">> ELSE << >>)
    \o (IF o.type \notin {Undefined, ""} THEN <<"type">> ELSE << >>)
    \o (IF o.minAmount.def THEN <<"minAmount">> ELSE << >>)
    \o (IF o.maxAmount.def THEN <<"maxAmount">> ELSE << >>)
    \o (IF o.search.def /\ o.search.text # << >> THEN <<"search">>
        ELSE << >>)

\* The filters of the clauses of a predicate, clause by clause
ClauseFilters(words) ==
    LET P == PositionsOf(words, "AND")
    IN [k \in 1..Cardinality(P) |->
          LET i == Nth(P, k) + 1
          IN CASE words[i] = "t.trn_date" ->
                    IF words[i + 1] = ">=" THEN "startDate" ELSE "endDate"
               [] words[i] = "t.category_id" -> "categoryIds"
               [] words[i] = "c.type" -> "type"
               [] words[i] = "t.amount" ->
                    IF words[i + 1] = ">=" THEN "minAmount" ELSE "maxAmount"
               [] OTHER -> "search"]

\* C15: the predicate of every query that was run has exactly one clause
\* per present filter, in the builder's order, and none for an absent one;
\* with no filter present (an empty category-id list included) the
\* predicate and the value list are empty.
C15_OneClausePerFilter ==
    listed.r.db =>
        /\ ClauseFilters(listed.r.whereClause)
              = PresentFilters(listed.r.options)
        /\ PresentFilters(listed.r.options) = << >> =>
              /\ listed.r.whereClause = << >>
              /\ BuilderParams(listed.r) = << >>

\* C15 witness: a request whose category-id list is empty ran with an
\* empty predicate and no value.
C15_Witness ==
    /\ listed.r.status = 200
    /\ listed.q.categoryIds.kind = "array"
    /\ listed.r.options.categoryIds = << >>
    /\ listed.r.whereClause = << >>
    /\ BuilderParams(listed.r) = << >>

\* text contains part as a run of consecutive characters
Contains(text, part) ==
    \E i \in 0..(Len(text) - Len(part)) :
        SubSeq(text, i + 1, i + Len(part)) = part

\* Row t satisfies every filter present in query q.
Satisfies(t, q) ==
    LET c == CHOOSE k \in categories : k.category_id = t.category_id
        ids == {q.categoryIds.items[i] : i \in DOMAIN q.categoryIds.items}
                  \ {-1}
        needle == trim(q.search.text)
    IN /\ q.startDate.kind = "iso" => t.trn_date >= q.startDate.day
       /\ q.endDate.kind = "iso" => t.trn_date <= q.endDate.day
       /\ ids # {} => t.category_id \in ids
       /\ q.type \notin {Undefined, ""} =>
             toLowerCase(c.type) = toLowerCase(q.type)
       /\ q.minAmount.kind = "numeral" => t.amount >= q.minAmount.n
       /\ q.maxAmount.kind = "numeral" => t.amount <= q.maxAmount.n
       /\ (q.search.kind = "string" /\ needle # << >>) =>
             \/ t.note # SqlNull /\ Contains(Text(t.note), needle)
             \/ Contains(Text(c.name), needle)

\* The page holds every matching row: the limit is not reached.
NoCutOff(r) == r.options.offset = 0 /\ r.total <= r.options.limit

\* Each amount of query q is absent or a numeral.
AmountsWellFormed(q) ==
    /\ q.minAmount.kind \in {Undefined, "numeral"}
    /\ q.maxAmount.kind \in {Undefined, "numeral"}

\* C16: a list with well-formed amounts that succeeds without pagination
\* cut-off returns exactly the caller's transactions that satisfy every
\* present filter (ranges inclusive, a bound of 0 applied, the search string
\* a substring of the note or of the category name); over the fixture,
\* {minAmount 50, maxAmount 200, type Expense} returns the rows with amounts
\* 75 and 150.
C16_ExactlyMatchingRows ==
    (/\ listed.r.status = 200
     /\ NoCutOff(listed.r)
     /\ AmountsWellFormed(listed.q)) =>
        /\ {listed.r.data[i] : i \in DOMAIN listed.r.data}
              = {t.trn_id : t \in {x \in transactions :
                                      /\ x.user_id = listed.userId
                                      /\ Satisfies(x, listed.q)}}
        /\ (/\ listed.userId = 1
            /\ listed.q = [NoQuery EXCEPT
                              !.minAmount = RawNumber("numeral", 50),
                              !.maxAmount = RawNumber("numeral", 200),
                              !.type = "Expense"]) =>
              {t.amount : t \in {x \in transactions :
                   \E i \in DOMAIN listed.r.data :
                      x.trn_id = listed.r.data[i]}} = {75, 150}

\* C17: every transaction a list returns is owned by the caller, and the
\* total counts no more rows than the caller owns.
C17_OnlyOwnRows ==
    listed.r.status = 200 =>
        /\ \A i \in DOMAIN listed.r.data :
              \E t \in transactions :
                 /\ t.trn_id = listed.r.data[i]
                 /\ t.user_id = listed.userId
        /\ listed.r.total
              <= Cardinality({t \in transactions :
                                 t.user_id = listed.userId})
        /\ listed.r.params[1].n = listed.userId

\* C17 witness: user 2 listed with a search string that matches notes of
\* both users and got rows.
C17_Witness ==
    /\ listed.r.status = 200
    /\ listed.userId = 2
    /\ listed.q.search = RawSearch("string", <<"a">>)
    /\ Len(listed.r.data) > 0
    /\ \E t \in transactions :
          t.user_id = 1 /\ Satisfies(t, listed.q)

\* C18: a sortBy that is none of amount, trn_date, categoryName is answered
\* with a validation error and no query; every query that runs is ordered by
\* t.amount, t.trn_date or c.name, ASC or DESC.
C18_SortWhitelist ==
    /\ listed.q.sortBy \notin {Undefined, "", "amount", "trn_date",
                               "categoryName"} =>
          listed.r.status = 400 /\ ~listed.r.db
    /\ listed.r.db =>
          /\ listed.r.orderBy \in {"t.amount", "t.trn_date", "c.name"}
          /\ listed.r.order \in {"ASC", "DESC"}

\* C19: a list request with start after end, min above max, a search string
\* of more than 100 characters, or a malformed date or amount is answered
\* with a validation error and does not reach the store; the requests that
\* reach fetchTransactions have start <= end and min <= max.
C19_ListValidation ==
    LET q == listed.q
        o == listed.r.options
        bad == \/ /\ q.startDate.kind = "iso"
                  /\ q.endDate.kind = "iso"
                  /\ q.startDate.day > q.endDate.day
               \/ /\ q.minAmount.kind = "numeral"
                  /\ q.maxAmount.kind = "numeral"
                  /\ q.minAmount.n > q.maxAmount.n
               \/ /\ q.search.kind = "string"
                  /\ Len(trim(q.search.text)) > MaxSearchLength
               \/ q.startDate.kind \in {"garbage", "invalid"}
               \/ q.endDate.kind \in {"garbage", "invalid"}
               \/ q.minAmount.kind \in {"garbage", "empty"}
               \/ q.maxAmount.kind \in {"garbage", "empty"}
    IN /\ bad => listed.r.status = 400 /\ ~listed.r.db
       /\ listed.r.db =>
             /\ (o.startDate.kind = "iso" /\ o.endDate.kind = "iso") =>
                   o.startDate.day <= o.endDate.day
             /\ (o.minAmount.def /\ o.maxAmount.def) =>
                   o.minAmount.n <= o.maxAmount.n

\* C20: a list request with limit 0 returns no item and the number of the
\* caller's matching rows as total.
C20_LimitZero ==
    (listed.q.take = RawNumber("numeral", 0) /\ listed.r.status = 200) =>
        /\ listed.r.data = << >>
        /\ listed.r.total
              = Cardinality({t \in transactions :
                                /\ t.user_id = listed.userId
                                /\ Satisfies(t, listed.q)})

\* The search string of query q has no LIKE wildcard.
NoWildcard(q) ==
    \A i \in DOMAIN q.search.text : q.search.text[i] \notin {"%", "_"}

\* The rows the page query returns without LIMIT and OFFSET: one per group
\* of the joined rows that pass the WHERE with the values of response r
UnpagedRows(r) ==
    DOMAIN GroupBy(LeftJoin(
               Matching(transactions, r.whereClause,
                        SubSeq(r.params, 1, Len(r.params) - 2)),
               transaction_attachments))

\* C21: the total of a list is the number of rows its page query returns
\* without LIMIT and OFFSET, the same request with any other take and skip
\* reports the same total, and (for a request with well-formed amounts and a
\* search string without wildcard) it is the number of the caller's
\* transactions that satisfy the filters.
C21_TotalIndependentOfPage ==
    listed.r.status = 200 =>
        /\ listed.r.total = Cardinality(UnpagedRows(listed.r))
        /\ \A tk \in RawPages, sk \in RawPages :
              \A resp \in GetList(listed.userId,
                                  [listed.q EXCEPT !.take = tk, !.skip = sk],
                                  transactions, transaction_attachments) :
                 resp.status = 200 /\ resp.total = listed.r.total
        /\ (AmountsWellFormed(listed.q) /\ NoWildcard(listed.q)) =>
              listed.r.total
                 = Cardinality({t \in transactions :
                                   /\ t.user_id = listed.userId
                                   /\ Satisfies(t, listed.q)})

\* C21 witness: a page of one item from offset 1 was returned with total 4,
\* the caller having a transaction with two attachments.
C21_Witness ==
    /\ listed.r.status = 200
    /\ listed.userId = 1
    /\ listed.r.options.limit = 1
    /\ listed.r.options.offset = 1
    /\ Len(listed.r.data) = 1
    /\ listed.r.total = 4
    /\ \E t \in transactions :
          /\ t.user_id = listed.userId
          /\ Cardinality(AttachmentsOf(transaction_attachments, t.trn_id)) = 2

\* The sort key of the row with trn id id under the sortBy of query q
KeyOf(id, q) ==
    LET t == CHOOSE x \in transactions : x.trn_id = id
    IN CASE q.sortBy = "amount" -> t.amount
         [] q.sortBy = "trn_date" -> t.trn_date
         [] OTHER ->
              (CHOOSE c \in categories : c.category_id = t.category_id).name

\* C22: when a client has read a list page by page (page size K > 0,
\* offsets 0, K, 2K, ...) the pages together hold every matching
\* transaction of the caller exactly once, in the order of the sort column,
\* also when transactions are equal on the sort column.
C22_PagesConcatenate ==
    paging.state = "done" =>
        LET items == paging.items
        IN /\ \A i, j \in DOMAIN items : i # j => items[i] # items[j]
           /\ {items[i] : i \in DOMAIN items}
                 = {t.trn_id : t \in {x \in transactions :
                                         /\ x.user_id = paging.userId
                                         /\ Satisfies(x, paging.q)}}
           /\ \A i, j \in DOMAIN items :
                 i < j => IF paging.q.order = "asc"
                          THEN KeyOf(items[i], paging.q)
                                  <= KeyOf(items[j], paging.q)
                          ELSE KeyOf(items[i], paging.q)
                                  >= KeyOf(items[j], paging.q)

\* C23: in every page each transaction appears once, whatever the number of
\* its attachments; its attachments array holds exactly one entry per
\* attachment row of the transaction and no null entry, and is empty for a
\* transaction without attachments.
C23_AttachmentsCollapsed ==
    listed.r.status = 200 =>
        /\ \A i, j \in DOMAIN listed.r.data :
              i # j => listed.r.data[i] # listed.r.data[j]
        /\ NoCutOff(listed.r) =>
              {listed.r.data[i] : i \in DOMAIN listed.r.data}
                 = UnpagedRows(listed.r)
        /\ \A i \in DOMAIN listed.r.data :
              LET rows == {a \in transaction_attachments :
                              a.trn_id = listed.r.data[i]}
                  array == listed.r.attachments[i]
              IN /\ BagToSet(array)
                       = {[id |-> a.attachment_id, filePath |-> a.file_path] :
                             a \in rows}
                 /\ \A e \in BagToSet(array) : CopiesIn(e, array) = 1
                 /\ BagCardinality(array) = Cardinality(rows)
                 /\ ~BagIn(JsonNull, array)
                 /\ rows = {} => array = EmptyBag

\* C23 witness: a page holds a transaction with two attachments and one
\* with none.
C23_Witness ==
    /\ listed.r.status = 200
    /\ \E i, j \in DOMAIN listed.r.data :
          /\ BagCardinality(listed.r.attachments[i]) = 2
          /\ listed.r.attachments[j] = EmptyBag
          /\ AttachmentsOf(transaction_attachments, listed.r.data[j]) = {}

\* ------------------------------------------------------------------------
\* Claims about the transactional scope and the files
\* ------------------------------------------------------------------------
\* C24: a request whose scope was rolled back has committed none of its
\* writes: the tables are as before the request.
C24_RollbackRevertsWrites ==
    [][last'.scope = "rolledback" =>
          /\ transactions' = transactions
          /\ transaction_attachments' = transaction_attachments]_vars

\* C25: a request that opened a scope has ended it before its response: a
\* success response follows a commit, a failure or Not Found response
\* follows a rollback.
C25_ScopeEndedOnce ==
    last.db =>
        /\ last.scope \in {"committed", "rolledback"}
        /\ last.status \in {200, 201} <=> last.scope = "committed"
        /\ last.status \in {404, 500} <=> last.scope = "rolledback"

\* C26: when removing the files of the matched attachments, the unlink of
\* one of them failing does not keep the others from being removed (Delete:
\* all attachments of the transaction; Update: those named in
\* deleteAttachmentIds), and a matched file that is already absent does not
\* fail the request.
C26_EveryFileAttempted ==
    [][\A userId \in Users, trnId \in 1..(nextTrnId - 1) :
         /\ \A i \in 1..(nextAttId - 1) :
              (/\ last'.op = "delete"
               /\ last'.trnId = trnId
               /\ \E t \in transactions : OwnedBy(t, trnId, userId)
               /\ DeleteStep(userId, trnId, FP("unlinkOld", i))) =>
                 \A a \in AttachmentsOf(transaction_attachments, trnId) :
                    a.attachment_id # i => ~existsSync(disk', a.file_path)
         /\ \A ids \in DeleteIdSets, i \in 1..(nextAttId - 1) :
              (/\ last'.op = "update"
               /\ last'.trnId = trnId
               /\ i \in ids
               /\ \E t \in transactions : OwnedBy(t, trnId, userId)
               /\ UpdateStep(userId, trnId, NoBody, ids, << >>,
                             FP("unlinkOld", i))) =>
                 \A a \in SelectedAttachments(transaction_attachments,
                                              trnId, ids) :
                    a.attachment_id # i => ~existsSync(disk', a.file_path)
         /\ (/\ last'.op = "delete"
             /\ \E t \in transactions : OwnedBy(t, trnId, userId)
             /\ \E a \in AttachmentsOf(transaction_attachments, trnId) :
                   ~existsSync(disk, a.file_path)
             /\ DeleteStep(userId, trnId, NoFault)) =>
               last'.status = 200]_vars

\* Every file of directory d is the storage path of exactly one row of A.
NoOrphan(d, A) ==
    \A p \in DOMAIN d : Cardinality({a \in A : a.file_path = p}) = 1

\* C27: a request that commits, run on tables and a directory without
\* orphaned file, leaves none: every file on disk is the storage path of
\* exactly one committed attachment row.
C27_NoOrphanAfterCommit ==
    [][(NoOrphan(disk, transaction_attachments)
          /\ last'.scope = "committed") =>
             NoOrphan(disk', transaction_attachments')]_vars

\* C27 witness: three requests have committed, two Adds and then a Delete of
\* a transaction with a file, and a file of the other is on disk.
C27_Witness ==
    /\ requests = 3
    /\ nextTrnId = 3
    /\ last.op = "delete"
    /\ last.scope = "committed"
    /\ Cardinality(DOMAIN disk) < nextPath - 1
    /\ DOMAIN disk # {}
    /\ NoOrphan(disk, transaction_attachments)

\* C30: an Update leaves the row and the file of every attachment of
\* another transaction unchanged, also of those named in its
\* deleteAttachmentIds.
C30_OtherTransactionsKept ==
    [][last'.op = "update" =>
          \A a \in transaction_attachments :
             a.trn_id # last'.trnId =>
                /\ a \in transaction_attachments'
                /\ existsSync(disk, a.file_path) =>
                      /\ existsSync(disk', a.file_path)
                      /\ disk'[a.file_path] = disk[a.file_path]]_vars

\* C30 witness: an Update that succeeded named in deleteAttachmentIds an
\* attachment of another transaction (of another user), which is still
\* there with its file.
C30_Witness ==
    /\ last.op = "update"
    /\ last.status = 200
    /\ \E a \in transaction_attachments :
          /\ a.attachment_id \in last.delIds
          /\ a.trn_id # last.trnId
          /\ existsSync(disk, a.file_path)
          /\ \E t \in transactions :
                t.trn_id = a.trn_id /\ t.user_id # last.userId

\* ------------------------------------------------------------------------
\* Claims about concurrent requests
\* ------------------------------------------------------------------------
\* Both requests have returned.
BothReturned == \A p \in Procs : race[p].op # "none" /\ race[p].pc = "done"

\* C28: once two concurrent Updates that upload the same content to the
\* same transaction have both returned (200), the transaction has exactly
\* one attachment row with the hash of that content and the content is on
\* disk exactly once.
C28_ConcurrentDuplicate ==
    (/\ BothReturned
     /\ \A p \in Procs : race[p].op = "update" /\ race[p].status = 200) =>
        /\ Cardinality({a \in transaction_attachments :
                           /\ a.trn_id = RaceTrn
                           /\ a.file_hash = Sha256(1)}) = 1
        /\ Cardinality({f \in DOMAIN disk : disk[f] = 1}) = 1

\* C29: once a Delete of a transaction and a concurrent Update that added a
\* file to it have both returned, every file on disk has a committed
\* attachment row.
C29_DeleteUpdateNoOrphan ==
    (/\ BothReturned
     /\ \E p \in Procs :
           /\ race[p].op = "delete"
           /\ race[Other(p)].op = "update"
           /\ race[Other(p)].status = 200) =>
        \A f \in DOMAIN disk :
           \E a \in transaction_attachments : a.file_path = f

====
